---- MODULE Spec2Model ----
(***************************************************************************)
(* translator-ai: the translation pipeline of src/src/index.ts             *)
(* (processSingleFile, processMultipleFiles, translateBatch) together with *)
(* the response validation of src/src/translators/base.ts.                 *)
(*                                                                         *)
(* Twelve specifications:                                                   *)
(*   SpecBatch  the batch partitioning arithmetic, on miss lists of up to  *)
(*              MaxMiss strings with the program's MAX_BATCH_SIZE;         *)
(*   Spec       the pipeline (read, compare with cache, dispatch, merge,   *)
(*              prune, save, rebuild, write) over a small set of           *)
(*              documents, one or two target languages, MaxRuns            *)
(*              consecutive invocations on one cache file, the cache file  *)
(*              present, absent or damaged, writable or not;               *)
(*   FairSpec   Spec for a process that keeps running and a backend whose  *)
(*              calls all return, for the liveness properties;             *)
(*   SpecFile   loadCache and saveCache of two processes on one cache      *)
(*              file, fs.writeFile step by step, either process killed at  *)
(*              any point;                                                 *)
(*   SpecRebuild  the flat path encoding and applyTranslations on          *)
(*              documents with any keys (dots, "[0]", the separator and    *)
(*              escape characters) and any translation map;                *)
(*   SpecDryRun the steps of processSingleFile and processMultipleFiles    *)
(*              between the collection of the strings and the comparison   *)
(*              with the cache: source language detection and --dry-run;   *)
(*   SpecCheckKeys  the rebuild of one document followed by the key        *)
(*              verification of --check-keys;                              *)
(*   SpecMcp    the tools of the MCP server: validation, the argument list *)
(*              of the CLI and the files read;                             *)
(*   SpecFactory  TranslatorFactory.create: the choice of the provider;    *)
(*   SpecOllama  the retry loop of OllamaTranslator.translate for calls on *)
(*              one instance, started together (processSingleFile) or one  *)
(*              after the other (processMultipleFiles); SpecOllamaFair     *)
(*              adds that every request is answered and every timer fires; *)
(*   SpecOutput  the output paths of an invocation: the templates of -o    *)
(*              for each file and each target language, and the writes;    *)
(*   SpecEquiv   processSingleFile and processMultipleFiles side by side   *)
(*              on one document, one cache file and one backend.           *)
(***************************************************************************)
EXTENDS Integers, Sequences, FiniteSets, TLC

VARIABLES
  \* --- SpecBatch: one partitioning of a miss list ---
  bMode,        \* "single" (processSingleFile) or "multi" (processMultipleFiles)
  bList,        \* stringsArray: the miss list, strings numbered 1..n
  bBatches,     \* the batches handed to translateBatch, in dispatch order
  bStats,       \* stats.batchCount and stats.targetBatchSize
  bPc,          \* "init" before the partitioning, "done" after
  \* --- SpecFile: the cache file under overlapping and interrupted runs ---
  fContent,     \* the content of the cache file, token by token
  fProc,        \* per process: its step, in-memory cache, data being written, file position
  fLast,        \* the process whose fs.writeFile completed last (0: none yet)
  fInitial,     \* the cache the file held before any of the processes started
  \* --- SpecRebuild: one reconstruction ---
  rDoc,         \* sourceJson
  rPathMap,     \* sourcePathMap
  rTranslations,\* translations: hash -> translated string
  rJson,        \* translatedJson
  rPc,          \* "flatten", "apply", "done"
  \* --- SpecDryRun: language detection and the dry-run report ---
  dOpts,        \* mode, useCache, detectSource, dryRun, and whether the provider
                \* defines detectLanguage
  dStrings,     \* allSourceStrings.size / stats.uniqueStrings
  dCacheKind,   \* what reading the cache file gives (as cacheKind)
  dCalls,       \* the calls made to the translation backend, in order
  dPc,          \* "detect", "dryrun", then "returned", "translate" or "failed"
  \* --- SpecOutput: the output paths of one invocation ---
  wFiles,       \* inputFiles resolved: uniqueFiles, each a sequence of path tokens
  wOutput,      \* the -o option, a sequence of tokens, or <<>> when absent
  wStdout,      \* --stdout
  wLangs,       \* targetLanguages
  wLangIdx,     \* the position of main's loop over targetLanguages
  wPaths,       \* multi-file: fileData.outputPath per file, for this language
  wFileIdx,     \* multi-file: the position of the loop of step 6
  wWritten,     \* the fs.writeFile calls so far: file, language and path
  \* --- SpecEquiv: the two pipelines on one document ---
  eDoc,         \* the source document, file f1
  eCache,       \* the cache file before the run
  eLang,        \* the target language
  eUseCache,    \* false under --no-cache
  eWritable,    \* whether saveCache can write the cache file
  eBackend,     \* the backend: what it answers for each string
  eSingle,      \* processSingleFile: position, translations, cache, output
  eMulti,       \* processMultipleFiles: the same
  \* --- SpecOllama: translate calls on one OllamaTranslator ---
  oPipeline,            \* "single": the batches are started together; "multi": in turn
  useJsonFormat,        \* the field of the instance
  useSimplifiedPrompt,  \* the field of the instance
  oPc,                  \* per call: "idle", "inflight", "waiting", "returned", "thrown"
  oLog,                 \* per call: its attempts, each with the request format and
                        \* prompt it used and its outcome
  oWaits,               \* per call: the base wait times of its setTimeout calls
  oEarlier,             \* the fields as the latest reset found them
  oStarted,             \* the number of starts so far
  \* --- SpecFactory: one call of TranslatorFactory.create ---
  tConfig,      \* the TranslatorConfig argument
  tEnv,         \* process.env: GEMINI_API_KEY, OPENAI_API_KEY
  tOllamaUp,    \* what ollama.isAvailable() answers
  tResult,      \* the provider returned
  tPc,          \* "create", then "returned" or "thrown"
  \* --- SpecMcp: one tool call of the MCP server ---
  mTool,        \* request.params.name
  mArgs,        \* request.params.arguments
  mEnv,         \* process.env: TRANSLATOR_PROVIDER, GEMINI_MODEL, OPENAI_MODEL
  mCmdArgs,     \* the argument list handed to execFile('translator-ai', ...)
  mReads,       \* the paths handed to fs.readFile by validate_translation
  mPc,          \* "request", then "ok", "validation_error", "io_error" or "cli_error"
  \* --- SpecCheckKeys: the key verification after the rebuild ---
  kOpts,        \* mode, stdout, checkKeys
  kDoc,         \* sourceJson / fileData.json
  kTranslations,\* translations / globalTranslations
  kOutput,      \* outputJson
  kReported,    \* true once "Key verification failed" has been printed
  kPc,          \* "rebuild", "check", then "finished", "exit1" or "failed"
  \* --- Spec: the invocation (command line and files on disk) ---
  runNo,            \* 1 for the first invocation, 2 for the one after it, ...
  now,              \* the clock read by new Date()
  mode,             \* "single" (processSingleFile) or "multi" (processMultipleFiles)
  files,            \* uniqueFiles: the source files of the invocation, in order
  docs,             \* the JSON content of each source file on disk
  targetLanguages,  \* the languages of --lang, in order
  lang,             \* targetLang: the language main's loop is at
  useCache,         \* false under --no-cache
  includeMetadata,  \* true under --metadata
  cacheFile,        \* the cache file on disk: (file, lang) -> hash -> translation
  cacheKind,        \* what reading the cache file gives: "valid" (the object cacheFile),
                    \* "missing", "unreadable", "unparsable", or "null" (the JSON text null)
  cacheWritable,    \* false when writing the cache file fails (fs.mkdir or fs.writeFile throws)
  outputs,          \* the output file of the current target language for each source file
  prev,             \* what the previous invocation left: its documents, outputs, success
  cacheAtStart,     \* the cache file as it was when the processing of lang started
  loadedKind,       \* cacheKind as loadCache met it for lang ("none": not loaded)
  cacheWrites,      \* how many times the invocation has written the cache file
  \* --- Spec: the state of the running invocation ---
  pc,               \* the step the invocation is at
  pathMaps,         \* sourcePathMap / fileDataMap[file].paths
  translationCache, \* the in-memory cache
  globalTranslations, \* translations / globalTranslations: hash -> translation
  stringsArray,     \* Array.from(stringsToTranslateAPI) / Array.from(stringsToTranslate)
  stats,            \* stats.batchCount, stats.targetBatchSize
  batches,          \* the batches, in dispatch order
  batchState,       \* per batch: "pending", "inflight", "returned"
  batchClass,       \* per batch: what the backend answered ("ok", "length", "empty", "error")
                    \* or "none" before its answer
  batchResult,      \* per batch: the map translateBatch returned
  requests,         \* the lists handed to translator.translate, in order
  completed,        \* the batches whose translateBatch has returned, in completion order
  counts,           \* successfullyTranslatedCount and prunedCount
  fileIdx           \* processMultipleFiles step 6: the next file to rebuild and write

bvars == <<bMode, bList, bBatches, bStats, bPc>>
fvars == <<fContent, fProc, fLast, fInitial>>
rvars == <<rDoc, rPathMap, rTranslations, rJson, rPc>>
dvars == <<dOpts, dStrings, dCacheKind, dCalls, dPc>>
kvars == <<kOpts, kDoc, kTranslations, kOutput, kReported, kPc>>
mvars == <<mTool, mArgs, mEnv, mCmdArgs, mReads, mPc>>
tvars == <<tConfig, tEnv, tOllamaUp, tResult, tPc>>
ovars == <<oPipeline, useJsonFormat, useSimplifiedPrompt, oPc, oLog, oWaits, oEarlier, oStarted>>
wvars == <<wFiles, wOutput, wStdout, wLangs, wLangIdx, wPaths, wFileIdx, wWritten>>
evars == <<eDoc, eCache, eLang, eUseCache, eWritable, eBackend, eSingle, eMulti>>
auxvars == <<rvars, dvars, kvars, mvars, tvars, ovars, wvars, evars>>
cfgvars == <<mode, files, targetLanguages, lang, useCache, includeMetadata>>
diskvars == <<docs, cacheFile, cacheKind, cacheWritable, outputs>>
runvars == <<pc, pathMaps, translationCache, globalTranslations, stringsArray, stats, batches,
             batchState, batchClass, batchResult, requests, completed, counts, fileIdx>>
pvars == <<runNo, now, prev, cacheAtStart, loadedKind, cacheWrites, cfgvars, diskvars, runvars>>
vars == <<bvars, fvars, auxvars, auxvars, pvars>>

-----------------------------------------------------------------------------
(* Bounds and program constants *)

\* const MAX_BATCH_SIZE = 100;
MAX_BATCH_SIZE == 100

\* Longest miss list SpecBatch partitions.
MaxMiss == 260

\* MAX_BATCH_SIZE scaled down for Spec, whose documents hold a handful of
\* strings: the batch size limit the pipeline partitions with.
BatchCap == 2

\* Consecutive invocations on one cache file in Spec.
MaxRuns == 2

\* Tokens fs.writeFile hands to one write call in SpecFile; a file longer than
\* that is written in several calls.
ChunkTokens == 2

-----------------------------------------------------------------------------
(* Arithmetic and array helpers of the JavaScript runtime *)

Min(a, b) == IF a <= b THEN a ELSE b

\* Math.ceil(a / b) for integers a >= 0, b >= 1
Ceil(a, b) == (a + b - 1) \div b

\* Array.prototype.slice(start, end) with 0-based start, exclusive end
Slice(arr, start, end) == SubSeq(arr, start + 1, Min(end, Len(arr)))

-----------------------------------------------------------------------------
(* Documents: JSON trees.  A node is an object (keys in JavaScript property  *)
(* order, one value per key), an array, a string leaf or a non-string leaf.  *)
(* A key is the sequence of its characters, so that the path encoding can    *)
(* be computed character by character.                                       *)

Str(s) == [kind |-> "str", keys |-> <<>>, vals |-> <<>>, v |-> s]
Num(t) == [kind |-> "num", keys |-> <<>>, vals |-> <<>>, v |-> t]
Obj(ks, vs) == [kind |-> "obj", keys |-> ks, vals |-> vs, v |-> ""]
Arr(vs) == [kind |-> "arr", keys |-> <<>>, vals |-> vs, v |-> ""]

\* What a property read yields when there is nothing to read
Undefined == [kind |-> "undefined", keys |-> <<>>, vals |-> <<>>, v |-> ""]
\* An uncaught TypeError (property access on undefined, assignment to a primitive)
Crash == [kind |-> "crash", keys |-> <<>>, vals |-> <<>>, v |-> "TypeError"]

\* const PATH_SEPARATOR = '\x00'; const DOT_ESCAPE = '\x01';
PATH_SEPARATOR == "\\x00"
DOT_ESCAPE == "\\x01"

Digits == <<"0", "1", "2", "3", "4", "5", "6", "7", "8", "9">>

\* `[${index}]` for an array index below 10
IndexSegment(index) == <<"[", Digits[index + 1], "]">>

\* p.startsWith('[') && p.endsWith(']')
IsBracketed(p) == Len(p) >= 1 /\ p[1] = "[" /\ p[Len(p)] = "]"

\* parseInt(p.slice(1, -1)) for one digit; -1 stands for NaN
ParseInt(p) ==
  LET inner == SubSeq(p, 2, Len(p) - 1)
  IN IF Len(inner) = 1 /\ \E d \in 1..10 : Digits[d] = inner[1]
     THEN (CHOOSE d \in 1..10 : Digits[d] = inner[1]) - 1
     ELSE -1

\* p.replace(/\./g, DOT_ESCAPE)
EscapeDots(p) == [i \in 1..Len(p) |-> IF p[i] = "." THEN DOT_ESCAPE ELSE p[i]]

\* path.map(p => p.replace(/\./g, DOT_ESCAPE)).join(PATH_SEPARATOR)
RECURSIVE FlatPath(_)
FlatPath(path) ==
  IF path = <<>> THEN <<>>
  ELSE IF Len(path) = 1 THEN EscapeDots(path[1])
  ELSE EscapeDots(path[1]) \o <<PATH_SEPARATOR>> \o FlatPath(Tail(path))

\* The segment the walk appends for child i of a container node
ChildSegment(node, i) == IF node.kind = "obj" THEN node.keys[i] ELSE IndexSegment(i - 1)

\* The paths of the string leaves of a tree, depth first, object keys in
\* property order and array elements in index order: the leaves both
\* flattenObjectWithPaths and applyTranslations visit.
RECURSIVE LeafPaths(_, _)
RECURSIVE LeafPathsFrom(_, _, _)
LeafPaths(node, path) ==
  IF node.kind = "str" THEN <<path>>
  ELSE IF node.kind \in {"obj", "arr"} THEN LeafPathsFrom(node, path, 1)
  ELSE <<>>
LeafPathsFrom(node, path, i) ==
  IF i > Len(node.vals) THEN <<>>
  ELSE LeafPaths(node.vals[i], Append(path, ChildSegment(node, i)))
         \o LeafPathsFrom(node, path, i + 1)

\* The node at a path of segments produced by the walk itself
RECURSIVE NodeAt(_, _)
NodeAt(node, path) ==
  IF path = <<>> THEN node
  ELSE LET i == IF node.kind = "obj"
                THEN CHOOSE k \in 1..Len(node.keys) : node.keys[k] = path[1]
                ELSE ParseInt(path[1]) + 1
       IN NodeAt(node.vals[i], Tail(path))

\* An insertion-ordered Map as a sequence of <<key, value>> pairs
MapHas(m, k) == \E i \in 1..Len(m) : m[i][1] = k
MapGet(m, k) == m[CHOOSE i \in 1..Len(m) : m[i][1] = k][2]
\* Map.prototype.set: overwrite in place or append
MapSet(m, k, val) ==
  IF MapHas(m, k)
  THEN [i \in 1..Len(m) |-> IF m[i][1] = k THEN <<k, val>> ELSE m[i]]
  ELSE Append(m, <<k, val>>)
MapValues(m) == [i \in 1..Len(m) |-> m[i][2]]
MapKeys(m) == [i \in 1..Len(m) |-> m[i][1]]

\* flattenObjectWithPaths (helpers.js): flat path -> leaf string, in walk order
RECURSIVE FlattenLoop(_, _, _, _)
FlattenLoop(doc, paths, i, result) ==
  IF i > Len(paths) THEN result
  ELSE FlattenLoop(doc, paths, i + 1,
                   MapSet(result, FlatPath(paths[i]), NodeAt(doc, paths[i]).v))
flattenObjectWithPaths(doc) == FlattenLoop(doc, LeafPaths(doc, <<>>), 1, <<>>)

\* new Set(iterable) / Array.from(set): first occurrences, in order
RECURSIVE Unique(_)
Unique(seq) ==
  IF seq = <<>> THEN <<>>
  ELSE LET rest == Unique(SubSeq(seq, 1, Len(seq) - 1))
           last == seq[Len(seq)]
       IN IF \E i \in 1..Len(rest) : rest[i] = last THEN rest ELSE Append(rest, last)
Range(seq) == {seq[i] : i \in 1..Len(seq)}

\* hashString (helpers.js): a digest of the exact content, one per string
hashString(s) == "sha:" \o s

-----------------------------------------------------------------------------
(* Reconstruction: applyTranslations of processSingleFile and of             *)
(* processMultipleFiles (the two copies are the same code)                   *)

\* The property an assignment or read parent[...] addresses: the number
\* parseInt(p.slice(1, -1)) for a bracketed segment, the segment otherwise
PropertyName(seg) ==
  IF IsBracketed(seg)
  THEN IF ParseInt(seg) >= 0 THEN <<Digits[ParseInt(seg) + 1]>> ELSE <<"N", "a", "N">>
  ELSE seg

IsIndexKey(key) == Len(key) = 1 /\ \E d \in 1..10 : Digits[d] = key[1]
IndexOfKey(key) == (CHOOSE d \in 1..10 : Digits[d] = key[1]) - 1

HasProperty(node, seg) ==
  IF node.kind = "obj" THEN \E k \in 1..Len(node.keys) : node.keys[k] = PropertyName(seg)
  ELSE IF node.kind = "arr"
       THEN IsBracketed(seg) /\ ParseInt(seg) >= 0 /\ ParseInt(seg) < Len(node.vals)
       ELSE FALSE

PropertyIndex(node, seg) ==
  IF node.kind = "obj" THEN CHOOSE k \in 1..Len(node.keys) : node.keys[k] = PropertyName(seg)
  ELSE ParseInt(seg) + 1

\* parent = parent[parseInt(p.slice(1, -1))] or parent = parent[p].  Reading a
\* property of a primitive gives a primitive again, on which the assignment
\* that ends every walk throws as it does on undefined.
JsGet(node, seg) ==
  IF node.kind \in {"undefined", "crash"} THEN Crash
  ELSE IF HasProperty(node, seg) THEN node.vals[PropertyIndex(node, seg)]
  ELSE Undefined

\* Where a new property lands in the property order of an object: integer
\* keys first, ascending, then the other keys in insertion order
InsertAt(node, name) ==
  IF IsIndexKey(name)
  THEN 1 + Cardinality({k \in 1..Len(node.keys) :
                          IsIndexKey(node.keys[k]) /\ IndexOfKey(node.keys[k]) < IndexOfKey(name)})
  ELSE Len(node.keys) + 1

InsertSeq(seq, at, x) == SubSeq(seq, 1, at - 1) \o <<x>> \o SubSeq(seq, at, Len(seq))

\* parent[parseInt(lastKey.slice(1, -1))] = value or parent[lastKey] = value
JsSet(node, seg, value) ==
  IF node.kind = "obj"
  THEN IF HasProperty(node, seg)
       THEN [node EXCEPT !.vals[PropertyIndex(node, seg)] = value]
       ELSE LET at == InsertAt(node, PropertyName(seg))
            IN [node EXCEPT !.keys = InsertSeq(node.keys, at, PropertyName(seg)),
                            !.vals = InsertSeq(node.vals, at, value)]
  ELSE IF node.kind = "arr"
  THEN IF HasProperty(node, seg)
       THEN [node EXCEPT !.vals[PropertyIndex(node, seg)] = value]
       ELSE IF IsBracketed(seg) /\ ParseInt(seg) >= 0
       THEN \* an assignment past the end leaves holes, which serialise as null
            [node EXCEPT !.vals = [i \in 1..(ParseInt(seg) + 1) |->
                                     IF i <= Len(node.vals) THEN node.vals[i]
                                     ELSE IF i = ParseInt(seg) + 1 THEN value
                                     ELSE Num("null")]]
       ELSE \* a named property of an array is not serialised
            node
  ELSE Crash

\* for (const p of parentPath) parent = ...; then the assignment at lastKey,
\* on the tree being rebuilt
RECURSIVE SetPath(_, _, _)
SetPath(node, path, value) ==
  IF Len(path) = 1 THEN JsSet(node, path[1], value)
  ELSE LET child == JsGet(node, path[1])
       IN IF child.kind \in {"undefined", "crash"} \/ node.kind \notin {"obj", "arr"}
          THEN Crash
          ELSE LET changed == SetPath(child, Tail(path), value)
               IN IF changed.kind = "crash" THEN Crash
                  ELSE [node EXCEPT !.vals[PropertyIndex(node, path[1])] = changed]

\* Map.prototype.get on a hash -> translation map, and the test if (value)
Truthy(map, h) == h \in DOMAIN map /\ map[h] # ""

\* The string branch of applyTranslations at one leaf path
ApplyAtLeafSkipNested(tree, path, sourcePathMap, translations) ==
  LET flatPath == FlatPath(path)
  IN IF tree.kind = "crash" THEN Crash
     ELSE IF Len(path) = 1 /\ MapHas(sourcePathMap, flatPath)
             /\ Truthy(translations, hashString(MapGet(sourcePathMap, flatPath)))
     THEN SetPath(tree, path, Str(translations[hashString(MapGet(sourcePathMap, flatPath))]))
     ELSE tree

ApplyAtLeaf(tree, path, sourcePathMap, translations) ==
  LET flatPath == FlatPath(path)
  IN IF tree.kind = "crash" THEN Crash
     ELSE IF MapHas(sourcePathMap, flatPath)
             /\ Truthy(translations, hashString(MapGet(sourcePathMap, flatPath)))
     THEN SetPath(tree, path, Str(translations[hashString(MapGet(sourcePathMap, flatPath))]))
     ELSE tree

RECURSIVE ApplyLoop(_, _, _, _, _)
ApplyLoop(tree, paths, i, sourcePathMap, translations) ==
  IF i > Len(paths) THEN tree
  ELSE ApplyLoop(ApplyAtLeaf(tree, paths[i], sourcePathMap, translations),
                 paths, i + 1, sourcePathMap, translations)

\* let translatedJson = JSON.parse(JSON.stringify(sourceJson));
\* applyTranslations(translatedJson);
applyTranslations(sourceJson, sourcePathMap, translations) ==
  ApplyLoop(sourceJson, LeafPaths(sourceJson, <<>>), 1, sourcePathMap, translations)

-----------------------------------------------------------------------------
(* The translation provider and translateBatch *)

\* String.prototype.trim on the strings of the model
Trim(s) == IF s \in {" ", "  "} THEN "" ELSE s

\* BaseTranslator.validateResponse: "ok" or the error it throws
validateResponseNoLength(strings, translations) ==
  IF \E i \in 1..Len(translations) : translations[i] = "" \/ Trim(translations[i]) = ""
  THEN "Empty translation"
  ELSE "ok"

validateResponseNoEmpty(strings, translations) ==
  IF Len(translations) # Len(strings) THEN "Translation count mismatch"
  ELSE "ok"

validateResponse(strings, translations) ==
  IF Len(translations) # Len(strings) THEN "Translation count mismatch"
  ELSE IF \E i \in 1..Len(translations) : translations[i] = "" \/ Trim(translations[i]) = ""
  THEN "Empty translation"
  ELSE "ok"

\* What the backend service answers to one request: a failure of the call,
\* or a list of strings
Failure == [failed |-> TRUE, list |-> <<>>]
Answer(list) == [failed |-> FALSE, list |-> list]

\* translator.translate (GeminiTranslator.translate): the parsed answer is
\* validated and returned, or the call throws
ProviderTranslate(strings, response) ==
  IF response.failed THEN [threw |-> TRUE, list |-> <<>>]
  ELSE IF validateResponse(strings, response.list) # "ok" THEN [threw |-> TRUE, list |-> <<>>]
  ELSE [threw |-> FALSE, list |-> response.list]

\* strings.forEach((original, index) => { if (translations[index]) ... set })
TranslationMap(strings, translations) ==
  LET kept == {i \in 1..Len(strings) : i <= Len(translations) /\ translations[i] # ""}
  IN [s \in {strings[i] : i \in kept} |->
        translations[CHOOSE i \in kept : strings[i] = s /\ \A j \in kept : strings[j] = s => j <= i]]

\* translateBatch: the map original -> translated, empty when the provider throws
translateBatchRethrow(strings, response) ==
  LET result == ProviderTranslate(strings, response)
  IN IF result.threw THEN [threw |-> TRUE, map |-> <<>>]
     ELSE [threw |-> FALSE, map |-> TranslationMap(strings, result.list)]

translateBatch(strings, response) ==
  LET result == ProviderTranslate(strings, response)
  IN IF result.threw THEN [threw |-> FALSE, map |-> <<>>]
     ELSE [threw |-> FALSE, map |-> TranslationMap(strings, result.list)]

-----------------------------------------------------------------------------
(* Batch partitioning *)

\* for (let i = 0; i < totalStrings; i += dynamicBatchSize)
\*   batches.push(stringsArray.slice(i, i + dynamicBatchSize));
RECURSIVE SingleLoop(_, _, _, _)
SingleLoop(arr, i, step, acc) ==
  IF i < Len(arr)
  THEN SingleLoop(arr, i + step, step, Append(acc, Slice(arr, i, i + step)))
  ELSE acc

\* processSingleFile step 3: numBatches, dynamicBatchSize and the batches
SingleFileBatchesWideStep(arr, maxBatch) ==
  LET totalStrings == Len(arr)
      numBatches == Ceil(totalStrings, maxBatch)
      dynamicBatchSize == Ceil(totalStrings, numBatches)
  IN [batchCount |-> numBatches,
      targetBatchSize |-> dynamicBatchSize,
      batches |-> SingleLoop(arr, 0, dynamicBatchSize + 1, <<>>)]

SingleFileBatches(arr, maxBatch) ==
  LET totalStrings == Len(arr)
      numBatches == Ceil(totalStrings, maxBatch)
      dynamicBatchSize == Ceil(totalStrings, numBatches)
  IN [batchCount |-> numBatches,
      targetBatchSize |-> dynamicBatchSize,
      batches |-> SingleLoop(arr, 0, dynamicBatchSize, <<>>)]

\* processMultipleFiles step 4: batch i is
\*   stringsArray.slice(i * MAX_BATCH_SIZE, min(i * MAX_BATCH_SIZE + MAX_BATCH_SIZE, length))
MultiBatch(arr, i, maxBatch) ==
  LET batchStart == i * maxBatch
      batchEnd == Min(batchStart + maxBatch, Len(arr))
  IN Slice(arr, batchStart, batchEnd)

MultiFileBatchesOverlap(arr, maxBatch) ==
  LET numBatches == Ceil(Len(arr), maxBatch)
  IN [batchCount |-> numBatches,
      targetBatchSize |-> Min(maxBatch, Ceil(Len(arr), numBatches)),
      batches |-> [i \in 1..numBatches |->
                     Slice(arr, (i - 1) * (maxBatch - 1), (i - 1) * (maxBatch - 1) + maxBatch)]]

MultiFileBatches(arr, maxBatch) ==
  LET numBatches == Ceil(Len(arr), maxBatch)
  IN [batchCount |-> numBatches,
      targetBatchSize |-> Min(maxBatch, Ceil(Len(arr), numBatches)),
      batches |-> [i \in 1..numBatches |-> MultiBatch(arr, i - 1, maxBatch)]]

-----------------------------------------------------------------------------
(* The inputs of Spec: source files, documents, cache files, backend answers *)

Files == {"f1", "f2", "f3"}
Langs == {"es", "fr"}

K(c) == <<c>>

\* {"a": "Hello", "b": {"c": "Hello"}}
DocGreeting ==
  Obj(<<K("a"), K("b")>>, <<Str("Hello"), Obj(<<K("c")>>, <<Str("Hello")>>)>>)
\* {"x": "Save", "n": 5, "l": ["Hello", "Bye"]}
DocMenu ==
  Obj(<<K("x"), K("n"), K("l")>>, <<Str("Save"), Num("5"), Arr(<<Str("Hello"), Str("Bye")>>)>>)
\* {"x": "Save", "n": 5, "l": ["Hello"]}
DocMenuShort ==
  Obj(<<K("x"), K("n"), K("l")>>, <<Str("Save"), Num("5"), Arr(<<Str("Hello")>>)>>)
\* {"y": "Save"}
DocSave == Obj(<<K("y")>>, <<Str("Save")>>)
\* {"a.b": "Bye", "a": {"b": "Hello"}}
DocDotted ==
  Obj(<<<<"a", ".", "b">>, K("a")>>, <<Str("Bye"), Obj(<<K("b")>>, <<Str("Hello")>>)>>)

Documents == {DocGreeting, DocMenu, DocSave, DocDotted}

\* A source file that fs.readFile cannot read or JSON.parse cannot parse
Broken == [kind |-> "broken", keys |-> <<>>, vals |-> <<>>, v |-> ""]

\* What an edit between two invocations turns a document into
Revised(doc) ==
  IF doc = DocMenu THEN DocMenuShort
  ELSE IF doc = DocGreeting THEN DocSave
  ELSE doc

\* The backend's translation of a string; a model gives one of two wordings
Tr(s, l, wording) == IF wording = 1 THEN l \o ":" \o s ELSE l \o ":" \o s \o "~"

NoEntries == [key \in Files \X Langs |-> <<>>]
EmptyCache == NoEntries
\* A cache file left by earlier invocations: f1 holds Hello in another wording
\* and a string no document has any more, f2 holds Save, f3 is no file of the run
WarmCache ==
  [NoEntries EXCEPT
     ![<<"f1", "es">>] = (hashString("Hello") :> Tr("Hello", "es", 2))
                           @@ (hashString("Old") :> Tr("Old", "es", 1)),
     ![<<"f1", "fr">>] = (hashString("Hello") :> Tr("Hello", "fr", 1)),
     ![<<"f2", "es">>] = (hashString("Save") :> Tr("Save", "es", 1)),
     ![<<"f3", "es">>] = (hashString("Hello") :> Tr("Hello", "es", 1))]
InitialCaches == {EmptyCache, WarmCache}

ReplaceAt(list, k, x) == [i \in 1..Len(list) |-> IF i = k THEN x ELSE list[i]]

\* The answers the backend can give to a request for `strings`
Responses(strings, l) ==
  LET good(w) == [i \in 1..Len(strings) |-> Tr(strings[i], l, w)]
  IN {Failure, Answer(good(1)), Answer(good(2)),
      Answer(SubSeq(good(1), 1, Len(strings) - 1)),
      Answer(Append(good(1), Tr("Extra", l, 1)))}
     \cup {Answer(ReplaceAt(good(1), k, "")) : k \in 1..Len(strings)}
     \cup {Answer(ReplaceAt(good(1), k, "  ")) : k \in 1..Len(strings)}

\* What kind of answer it was
Classify(strings, response) ==
  IF response.failed THEN "error"
  ELSE IF Len(response.list) # Len(strings) THEN "length"
  ELSE IF \E i \in 1..Len(response.list) : response.list[i] \in {"", " ", "  "} THEN "empty"
  ELSE "ok"

NoOutput == [written |-> FALSE, json |-> Undefined, timestamp |-> -1, run |-> 0]
NoPrev == [ran |-> FALSE, completed |-> FALSE, allOk |-> FALSE, batchCount |-> 0,
           okStrings |-> {}, failedStrings |-> {}, docs |-> <<>>, outputs |-> <<>>]

-----------------------------------------------------------------------------
(* Spec: the pipeline *)

SeqOf(x, n) == [i \in 1..n |-> x]

\* The per-invocation state before step 1
FreshRun ==
  /\ pc = "read"
  /\ pathMaps = <<>>
  /\ translationCache = EmptyCache
  /\ globalTranslations = <<>>
  /\ stringsArray = <<>>
  /\ stats = [batchCount |-> 0, targetBatchSize |-> 0]
  /\ batches = <<>>
  /\ batchState = <<>>
  /\ batchClass = <<>>
  /\ batchResult = <<>>
  /\ requests = <<>>
  /\ completed = <<>>
  /\ counts = [translated |-> 0, pruned |-> 0]
  /\ fileIdx = 1

BIdle ==
  /\ bMode = "none"
  /\ bList = <<>>
  /\ bBatches = <<>>
  /\ bStats = [batchCount |-> 0, targetBatchSize |-> 0]
  /\ bPc = "idle"

FIdle ==
  /\ fContent = <<>>
  /\ fProc = <<>>
  /\ fLast = 0
  /\ fInitial = <<>>

RIdle ==
  /\ rDoc = Undefined
  /\ rPathMap = <<>>
  /\ rTranslations = <<>>
  /\ rJson = Undefined
  /\ rPc = "idle"

DIdle ==
  /\ dOpts = [mode |-> "none", useCache |-> FALSE, detectSource |-> FALSE, dryRun |-> FALSE,
              detectLanguage |-> FALSE]
  /\ dStrings = 0
  /\ dCacheKind = "valid"
  /\ dCalls = <<>>
  /\ dPc = "idle"

KIdle ==
  /\ kOpts = [mode |-> "none", stdout |-> FALSE, checkKeys |-> FALSE]
  /\ kDoc = Undefined
  /\ kTranslations = <<>>
  /\ kOutput = Undefined
  /\ kReported = FALSE
  /\ kPc = "idle"

MIdle ==
  /\ mTool = "none"
  /\ mArgs = <<>>
  /\ mEnv = <<>>
  /\ mCmdArgs = <<>>
  /\ mReads = <<>>
  /\ mPc = "idle"

NoProvider == [class |-> "none", name |-> "", modelName |-> ""]

TIdle ==
  /\ tConfig = <<>>
  /\ tEnv = <<>>
  /\ tOllamaUp = FALSE
  /\ tResult = NoProvider
  /\ tPc = "idle"

OIdle ==
  /\ oPipeline = "none"
  /\ useJsonFormat = TRUE /\ useSimplifiedPrompt = FALSE
  /\ oPc = <<>> /\ oLog = <<>> /\ oWaits = <<>>
  /\ oEarlier = [json |-> TRUE, simplified |-> FALSE]
  /\ oStarted = 0

WIdle ==
  /\ wFiles = <<>> /\ wOutput = <<>> /\ wStdout = FALSE /\ wLangs = <<>>
  /\ wLangIdx = 0 /\ wPaths = <<>> /\ wFileIdx = 0 /\ wWritten = <<>>

NotStarted ==
  [pc |-> "start", translations |-> <<>>, cache |-> EmptyCache, save |-> FALSE,
   pathMap |-> <<>>, output |-> Undefined]

EIdle ==
  /\ eDoc = Undefined /\ eCache = EmptyCache /\ eLang = "es" /\ eUseCache = FALSE
  /\ eWritable = TRUE /\ eBackend = [fails |-> FALSE, wording |-> 1, blank |-> ""]
  /\ eSingle = NotStarted /\ eMulti = NotStarted

AuxIdle == RIdle /\ DIdle /\ KIdle /\ MIdle /\ TIdle /\ OIdle /\ WIdle /\ EIdle

PIdle ==
  /\ runNo = 0 /\ now = 0 /\ prev = NoPrev /\ cacheAtStart = EmptyCache
  /\ loadedKind = "none" /\ cacheWrites = 0
  /\ mode = "none" /\ files = <<>> /\ targetLanguages = <<"es">> /\ lang = "es"
  /\ useCache = FALSE /\ includeMetadata = FALSE
  /\ docs = <<>> /\ cacheFile = EmptyCache /\ cacheKind = "valid" /\ cacheWritable = TRUE
  /\ outputs = <<>>
  /\ FreshRun /\ pc = "read"

\* What reading and parsing the cache file can give
CacheKinds == {"valid", "missing", "unreadable", "unparsable", "null"}

\* main: one source file without glob characters runs processSingleFile,
\* anything else processMultipleFiles.  --no-cache and --metadata are combined
\* with one target language and an intact, writable cache file; a second
\* language, a damaged cache file and a failing write are combined with each
\* other, with the cache enabled; a source file that cannot be read or parsed
\* is combined with one target language and an intact, writable cache file.
Init ==
  /\ BIdle /\ FIdle /\ AuxIdle
  /\ runNo = 1 /\ now = 1 /\ prev = NoPrev
  /\ mode \in {"single", "multi"}
  /\ files \in (IF mode = "single" THEN {<<"f1">>} ELSE {<<"f1", "f2">>})
  /\ targetLanguages \in {<<"es">>, <<"es", "fr">>}
  /\ lang = targetLanguages[1]
  /\ useCache \in BOOLEAN
  /\ includeMetadata \in BOOLEAN
  /\ docs \in [Range(files) -> Documents \cup {Broken}]
  /\ cacheKind \in CacheKinds
  /\ cacheWritable \in BOOLEAN
  /\ cacheFile \in (IF cacheKind = "valid" THEN InitialCaches ELSE {EmptyCache})
  /\ (Len(targetLanguages) > 1 \/ cacheKind # "valid" \/ ~cacheWritable)
       => (useCache /\ ~includeMetadata)
  /\ (\E f \in Range(files) : docs[f] = Broken)
       => (Len(targetLanguages) = 1 /\ cacheKind = "valid" /\ cacheWritable
           /\ ~includeMetadata)
  /\ cacheAtStart = cacheFile
  /\ loadedKind = "none" /\ cacheWrites = 0
  /\ outputs = [f \in Range(files) |-> NoOutput]
  /\ FreshRun

\* const allSourceStrings = new Set(sourcePathMap.values());
allSourceStringsNoSet(sourcePathMap) == MapValues(sourcePathMap)
allSourceStrings(sourcePathMap) == Unique(MapValues(sourcePathMap))

\* globalStringMap: the keys in insertion order, and the files of a string
RECURSIVE AllValues(_, _, _)
AllValues(fs, maps, i) ==
  IF i > Len(fs) THEN <<>> ELSE MapValues(maps[fs[i]]) \o AllValues(fs, maps, i + 1)
globalStrings(fs, maps) == Unique(AllValues(fs, maps, 1))
FilesOf(str, fs, maps) == SelectSeq(fs, LAMBDA f : str \in Range(MapValues(maps[f])))

\* The keys of fileDataMap, in insertion order: the files of the invocation
\* that were read and parsed
fileDataMapKeepsFailed == files
fileDataMap == SelectSeq(files, LAMBDA f : docs[f] # Broken)

\* The read and step 1 of processSingleFile, which exits when the file cannot
\* be read or parsed; step 2 of processMultipleFiles, whose try/catch per
\* file leaves such a file out of fileDataMap and globalStringMap
ReadSource ==
  /\ pc = "read"
  /\ IF mode = "single" /\ docs[files[1]] = Broken
     THEN pc' = "failed" /\ UNCHANGED pathMaps
     ELSE /\ pathMaps' = [f \in Range(fileDataMap) |-> flattenObjectWithPaths(docs[f])]
          /\ pc' = "compare"
  /\ UNCHANGED <<bvars, fvars, auxvars, runNo, now, prev, cacheAtStart, loadedKind, cacheWrites, cfgvars, diskvars, translationCache,
                 globalTranslations, stringsArray, stats, batches, batchState, batchClass,
                 batchResult, requests, completed, counts, fileIdx>>

\* processSingleFile step 2: langCache[h] ? translations.set(h, ...) : add(str)
SingleHits(strings, langCache) ==
  [h \in {hashString(str) : str \in {x \in Range(strings) : Truthy(langCache, hashString(x))}}
     |-> langCache[h]]
SingleMissesIgnoreCache(strings, langCache) == strings
SingleMisses(strings, langCache) ==
  SelectSeq(strings, LAMBDA str : ~Truthy(langCache, hashString(str)))

\* processMultipleFiles step 3: the first file of the string with a cache entry
CachedInFirstFileOnly(str, fs, maps, cache, l) ==
  SelectSeq(SubSeq(FilesOf(str, fs, maps), 1, 1),
            LAMBDA f : Truthy(cache[<<f, l>>], hashString(str)))
CachedIn(str, fs, maps, cache, l) ==
  SelectSeq(FilesOf(str, fs, maps), LAMBDA f : Truthy(cache[<<f, l>>], hashString(str)))
MultiHits(strings, fs, maps, cache, l) ==
  [h \in {hashString(str) : str \in {x \in Range(strings) : CachedIn(x, fs, maps, cache, l) # <<>>}}
     |-> LET str == CHOOSE x \in Range(strings) : hashString(x) = h
         IN cache[<<CachedIn(str, fs, maps, cache, l)[1], l>>][h]]
MultiMisses(strings, fs, maps, cache, l) ==
  SelectSeq(strings, LAMBDA str : CachedIn(str, fs, maps, cache, l) = <<>>)

\* loadCache: the parsed content of the file, or {} when fs.access,
\* fs.readFile or JSON.parse throws.  JSON.parse of the text null does not
\* throw: it returns null.
loadCache(kind, content) ==
  IF kind = "valid" THEN [isNull |-> FALSE, cache |-> content]
  ELSE IF kind = "null" THEN [isNull |-> TRUE, cache |-> EmptyCache]
  ELSE [isNull |-> FALSE, cache |-> EmptyCache]

\* step 2 of processSingleFile, step 3 of processMultipleFiles.  With null
\* for a cache, translationCache[sourceFilePath] and translationCache[file]
\* throw a TypeError, which ends the invocation in main's catch.
CompareWithCache ==
  /\ pc = "compare"
  /\ LET loaded == loadCache(cacheKind, cacheFile)
     IN IF useCache /\ loaded.isNull
        THEN /\ pc' = "failed"
             /\ UNCHANGED <<translationCache, globalTranslations, stringsArray>>
        ELSE /\ pc' = "translate"
             /\ IF mode = "single"
                THEN LET strings == allSourceStrings(pathMaps[files[1]])
                         langCache == loaded.cache[<<files[1], lang>>]
                     IN IF useCache
                        THEN /\ translationCache' = loaded.cache
                             /\ globalTranslations' = SingleHits(strings, langCache)
                             /\ stringsArray' = SingleMisses(strings, langCache)
                        ELSE /\ translationCache' = EmptyCache
                             /\ globalTranslations' = <<>>
                             /\ stringsArray' = strings
                ELSE LET strings == globalStrings(fileDataMap, pathMaps)
                     IN IF useCache
                        THEN /\ translationCache' = loaded.cache
                             /\ globalTranslations' =
                                  MultiHits(strings, fileDataMap, pathMaps, loaded.cache, lang)
                             /\ stringsArray' =
                                  MultiMisses(strings, fileDataMap, pathMaps, loaded.cache, lang)
                        ELSE /\ translationCache' = EmptyCache
                             /\ globalTranslations' = <<>>
                             /\ stringsArray' = strings
  /\ loadedKind' = IF useCache THEN cacheKind ELSE "none"
  /\ UNCHANGED <<bvars, fvars, auxvars, runNo, now, prev, cacheAtStart, cacheWrites, cfgvars, diskvars,
                 pathMaps, stats, batches, batchState, batchClass, batchResult, requests,
                 completed, counts, fileIdx>>

\* processSingleFile step 3 up to the await of Promise.all: the batches are
\* built and batches.map starts translateBatch, and with it the request to the
\* provider, for every batch
DispatchSingle ==
  /\ pc = "translate" /\ mode = "single"
  /\ IF stringsArray # <<>>
     THEN LET r == SingleFileBatches(stringsArray, BatchCap)
          IN /\ stats' = [batchCount |-> r.batchCount, targetBatchSize |-> r.targetBatchSize]
             /\ batches' = r.batches
             /\ batchState' = SeqOf("inflight", Len(r.batches))
             /\ batchClass' = SeqOf("none", Len(r.batches))
             /\ batchResult' = SeqOf(<<>>, Len(r.batches))
             /\ requests' = requests \o r.batches
             /\ pc' = "await"
     ELSE /\ pc' = "prune"
          /\ UNCHANGED <<stats, batches, batchState, batchClass, batchResult, requests>>
  /\ UNCHANGED <<bvars, fvars, auxvars, runNo, now, prev, cacheAtStart, loadedKind, cacheWrites, cfgvars, diskvars, pathMaps, translationCache,
                 globalTranslations, stringsArray, completed, counts, fileIdx>>

\* One translateBatch of processSingleFile returns: its promise settles
BackendReturnSingle(i, response) ==
  /\ pc = "await" /\ mode = "single"
  /\ batchState[i] = "inflight"
  /\ LET result == translateBatch(batches[i], response)
     IN IF result.threw
        THEN \* Promise.all rejects and main exits
             /\ pc' = "failed"
             /\ UNCHANGED <<batchState, batchResult>>
        ELSE /\ batchState' = [batchState EXCEPT ![i] = "returned"]
             /\ batchResult' = [batchResult EXCEPT ![i] = result.map]
             /\ pc' = pc
  /\ batchClass' = [batchClass EXCEPT ![i] = Classify(batches[i], response)]
  /\ completed' = Append(completed, i)
  /\ UNCHANGED <<bvars, fvars, auxvars, runNo, now, prev, cacheAtStart, loadedKind, cacheWrites, cfgvars, diskvars, pathMaps, translationCache,
                 globalTranslations, stringsArray, stats, batches, requests, counts, fileIdx>>

\* batchMap.forEach((translated, original) => translations.set(hashString(original), translated))
HashKeyedColliding(batchMap) ==
  IF DOMAIN batchMap = {} THEN <<>>
  ELSE "sha:" :> batchMap[CHOOSE original \in DOMAIN batchMap : TRUE]
HashKeyed(batchMap) ==
  [h \in {hashString(original) : original \in DOMAIN batchMap}
     |-> batchMap[CHOOSE original \in DOMAIN batchMap : hashString(original) = h]]
RECURSIVE MergeAll(_, _, _)
MergeAll(results, i, acc) ==
  IF i > Len(results) THEN acc
  ELSE MergeAll(results, i + 1, HashKeyed(results[i]) @@ acc)
RECURSIVE CountAll(_, _)
CountAll(results, i) ==
  IF i > Len(results) THEN 0
  ELSE Cardinality(DOMAIN results[i]) + CountAll(results, i + 1)

\* await Promise.all(translationPromises): resumes when every promise has settled
PromiseAllAsRace(states) == \E i \in 1..Len(states) : states[i] = "returned"
PromiseAll(states) == \A i \in 1..Len(states) : states[i] = "returned"

\* processSingleFile after Promise.all: newTranslations.forEach(...) into
\* translations and, with the cache enabled, into translationCache
MergeSingle ==
  /\ pc = "await" /\ mode = "single"
  /\ PromiseAll(batchState)
  /\ LET fresh == MergeAll(batchResult, 1, <<>>)
         key == <<files[1], lang>>
     IN /\ globalTranslations' = fresh @@ globalTranslations
        /\ translationCache' =
             IF useCache
             THEN [translationCache EXCEPT ![key] = fresh @@ translationCache[key]]
             ELSE translationCache
  /\ counts' = [counts EXCEPT !.translated = CountAll(batchResult, 1)]
  /\ pc' = "prune"
  /\ UNCHANGED <<bvars, fvars, auxvars, runNo, now, prev, cacheAtStart, loadedKind, cacheWrites, cfgvars, diskvars, pathMaps, stringsArray, stats,
                 batches, batchState, batchClass, batchResult, requests, completed, fileIdx>>

\* processSingleFile step 4
PrunedEntriesInverted(sourcePathMap, entries) ==
  LET currentHashes == {hashString(str) : str \in Range(allSourceStrings(sourcePathMap))}
  IN [h \in DOMAIN entries \ currentHashes |-> entries[h]]
PrunedEntries(sourcePathMap, entries) ==
  LET currentHashes == {hashString(str) : str \in Range(allSourceStrings(sourcePathMap))}
  IN [h \in DOMAIN entries \cap currentHashes |-> entries[h]]

PruneCache ==
  /\ pc = "prune" /\ mode = "single"
  /\ LET key == <<files[1], lang>>
         kept == PrunedEntries(pathMaps[files[1]], translationCache[key])
     IN IF useCache
        THEN /\ translationCache' = [translationCache EXCEPT ![key] = kept]
             /\ counts' = [counts EXCEPT !.pruned =
                              Cardinality(DOMAIN translationCache[key]) - Cardinality(DOMAIN kept)]
        ELSE UNCHANGED <<translationCache, counts>>
  /\ pc' = "save"
  /\ UNCHANGED <<bvars, fvars, auxvars, runNo, now, prev, cacheAtStart, loadedKind, cacheWrites, cfgvars, diskvars, pathMaps, globalTranslations,
                 stringsArray, stats, batches, batchState, batchClass, batchResult, requests, completed,
                 fileIdx>>

\* if (useCache && (successfullyTranslatedCount > 0 || prunedCount > 0))
saveNeededWithoutCacheFlag(use, c) == c.translated > 0 \/ c.pruned > 0
saveNeeded(use, c) == use /\ (c.translated > 0 \/ c.pruned > 0)

\* processSingleFile step 5: saveCache when something was translated or
\* pruned.  The call is not inside a try: when ensureCacheDirectory or
\* fs.writeFile throws, the error leaves processSingleFile and main exits.
SaveCache ==
  /\ pc = "save" /\ mode = "single"
  /\ IF saveNeeded(useCache, counts)
     THEN IF cacheWritable
          THEN /\ cacheFile' = translationCache
               /\ cacheKind' = "valid"
               /\ cacheWrites' = cacheWrites + 1
               /\ pc' = "rebuild"
          ELSE /\ pc' = "failed"
               /\ UNCHANGED <<cacheFile, cacheKind, cacheWrites>>
     ELSE /\ pc' = "rebuild"
          /\ UNCHANGED <<cacheFile, cacheKind, cacheWrites>>
  /\ UNCHANGED <<bvars, fvars, auxvars, runNo, now, prev, cacheAtStart, loadedKind, cfgvars, docs, cacheWritable, outputs, pathMaps, translationCache,
                 globalTranslations, stringsArray, stats, batches, batchState, batchClass,
                 batchResult, requests, completed, counts, fileIdx>>

\* The output document: the rebuilt tree and, under --metadata, the
\* _translator_metadata entry with its timestamp
OutputOf(tree) ==
  [written |-> TRUE, json |-> tree, timestamp |-> IF includeMetadata THEN now ELSE -1,
   run |-> runNo]

\* processSingleFile step 6 and the final output
RebuildSingle ==
  /\ pc = "rebuild" /\ mode = "single"
  /\ LET f == files[1]
         translatedJson == applyTranslations(docs[f], pathMaps[f], globalTranslations)
     IN IF translatedJson.kind = "crash"
        THEN pc' = "failed" /\ UNCHANGED outputs
        ELSE pc' = "done" /\ outputs' = [outputs EXCEPT ![f] = OutputOf(translatedJson)]
  /\ UNCHANGED <<bvars, fvars, auxvars, runNo, now, prev, cacheAtStart, loadedKind, cacheWrites, cfgvars, docs, cacheFile, cacheKind, cacheWritable, pathMaps,
                 translationCache, globalTranslations, stringsArray, stats, batches,
                 batchState, batchClass, batchResult, requests, completed, counts, fileIdx>>

\* processMultipleFiles step 4 up to the first await: the first batch is
\* sliced and handed to translateBatch
DispatchMulti ==
  /\ pc = "translate" /\ mode = "multi"
  /\ IF stringsArray # <<>>
     THEN LET r == MultiFileBatches(stringsArray, BatchCap)
          IN /\ stats' = [batchCount |-> r.batchCount, targetBatchSize |-> r.targetBatchSize]
             /\ batches' = r.batches
             /\ batchState' = [i \in 1..Len(r.batches) |-> IF i = 1 THEN "inflight" ELSE "pending"]
             /\ batchClass' = SeqOf("none", Len(r.batches))
             /\ batchResult' = SeqOf(<<>>, Len(r.batches))
             /\ requests' = Append(requests, r.batches[1])
             /\ pc' = "loop"
     ELSE /\ pc' = "update"
          /\ UNCHANGED <<stats, batches, batchState, batchClass, batchResult, requests>>
  /\ UNCHANGED <<bvars, fvars, auxvars, runNo, now, prev, cacheAtStart, loadedKind, cacheWrites, cfgvars, diskvars, pathMaps, translationCache,
                 globalTranslations, stringsArray, completed, counts, fileIdx>>

\* The awaited translateBatch of processMultipleFiles returns: its map is
\* merged into globalTranslations and the loop goes on to the next batch
BackendReturnMulti(i, response) ==
  /\ pc = "loop" /\ mode = "multi"
  /\ batchState[i] = "inflight"
  /\ LET result == translateBatch(batches[i], response)
     IN IF result.threw
        THEN /\ pc' = "failed"
             /\ UNCHANGED <<batchState, batchResult, globalTranslations, requests, counts>>
        ELSE /\ batchState' = [k \in 1..Len(batches) |->
                                 IF k = i THEN "returned"
                                 ELSE IF k = i + 1 THEN "inflight" ELSE batchState[k]]
             /\ batchResult' = [batchResult EXCEPT ![i] = result.map]
             /\ globalTranslations' = HashKeyed(result.map) @@ globalTranslations
             /\ counts' = [counts EXCEPT !.translated = @ + Cardinality(DOMAIN result.map)]
             /\ requests' = IF i < Len(batches) THEN Append(requests, batches[i + 1])
                            ELSE requests
             /\ pc' = IF i < Len(batches) THEN "loop" ELSE "update"
  /\ batchClass' = [batchClass EXCEPT ![i] = Classify(batches[i], response)]
  /\ completed' = Append(completed, i)
  /\ UNCHANGED <<bvars, fvars, auxvars, runNo, now, prev, cacheAtStart, loadedKind, cacheWrites, cfgvars, diskvars, pathMaps, translationCache,
                 stringsArray, stats, batches, fileIdx>>

\* processMultipleFiles step 5: every file of a string that has a translation
\* gets the entry
UpdatedEntries(sourcePathMap, entries, translations) ==
  LET hashes == {hashString(str) : str \in Range(MapValues(sourcePathMap))}
  IN [h \in hashes \cap DOMAIN translations |-> translations[h]] @@ entries

\* for (const [str, files] of globalStringMap) ... for (const file of files)
\*   translationCache[file][lang][hash] = translation
updatedCacheEveryLanguage(cache, fs, maps, translations, l) ==
  [key \in Files \X Langs |->
     IF key[1] \in Range(fs)
     THEN UpdatedEntries(maps[key[1]], cache[key], translations)
     ELSE cache[key]]
updatedCache(cache, fs, maps, translations, l) ==
  [key \in Files \X Langs |->
     IF key[1] \in Range(fs) /\ key[2] = l
     THEN UpdatedEntries(maps[key[1]], cache[key], translations)
     ELSE cache[key]]

UpdateCacheMulti ==
  /\ pc = "update" /\ mode = "multi"
  /\ IF useCache /\ stringsArray # <<>>
     THEN LET updated == updatedCache(translationCache, fileDataMap, pathMaps,
                                      globalTranslations, lang)
          IN /\ translationCache' = updated
             /\ IF cacheWritable
                THEN /\ cacheFile' = updated
                     /\ cacheKind' = "valid"
                     /\ cacheWrites' = cacheWrites + 1
                     /\ pc' = IF fileDataMap = <<>> THEN "done" ELSE "rebuild"
                ELSE /\ pc' = "failed"
                     /\ UNCHANGED <<cacheFile, cacheKind, cacheWrites>>
     ELSE /\ pc' = IF fileDataMap = <<>> THEN "done" ELSE "rebuild"
          /\ UNCHANGED <<translationCache, cacheFile, cacheKind, cacheWrites>>
  /\ fileIdx' = 1
  /\ UNCHANGED <<bvars, fvars, auxvars, runNo, now, prev, cacheAtStart, loadedKind, cfgvars, docs, cacheWritable, outputs, pathMaps,
                 globalTranslations, stringsArray, stats, batches, batchState, batchClass,
                 batchResult, requests, completed, counts>>

\* processMultipleFiles step 6, one file of fileDataMap per step
RebuildMulti ==
  /\ pc = "rebuild" /\ mode = "multi"
  /\ fileIdx <= Len(fileDataMap)
  /\ LET f == fileDataMap[fileIdx]
         translatedJson == applyTranslations(docs[f], pathMaps[f], globalTranslations)
     IN IF translatedJson.kind = "crash"
        THEN pc' = "failed" /\ UNCHANGED <<outputs, fileIdx>>
        ELSE /\ outputs' = [outputs EXCEPT ![f] = OutputOf(translatedJson)]
             /\ fileIdx' = fileIdx + 1
             /\ pc' = IF fileIdx = Len(fileDataMap) THEN "done" ELSE "rebuild"
  /\ UNCHANGED <<bvars, fvars, auxvars, runNo, now, prev, cacheAtStart, loadedKind, cacheWrites, cfgvars, docs, cacheFile, cacheKind, cacheWritable, pathMaps,
                 translationCache, globalTranslations, stringsArray, stats, batches,
                 batchState, batchClass, batchResult, requests, completed, counts>>

\* main's loop goes on to the next target language: processSingleFile or
\* processMultipleFiles is called again, and loads the cache file again
NextLanguage ==
  /\ pc = "done"
  /\ \E k \in 1..(Len(targetLanguages) - 1) :
       /\ targetLanguages[k] = lang
       /\ lang' = targetLanguages[k + 1]
  /\ cacheAtStart' = cacheFile
  /\ loadedKind' = "none"
  /\ outputs' = [f \in Range(files) |-> NoOutput]
  /\ pc' = "read"
  /\ pathMaps' = <<>>
  /\ translationCache' = EmptyCache
  /\ globalTranslations' = <<>>
  /\ stringsArray' = <<>>
  /\ stats' = [batchCount |-> 0, targetBatchSize |-> 0]
  /\ batches' = <<>>
  /\ batchState' = <<>>
  /\ batchClass' = <<>>
  /\ batchResult' = <<>>
  /\ requests' = <<>>
  /\ completed' = <<>>
  /\ counts' = [translated |-> 0, pruned |-> 0]
  /\ fileIdx' = 1
  /\ UNCHANGED <<bvars, fvars, auxvars, runNo, now, prev, cacheWrites, mode, files, targetLanguages,
                 useCache, includeMetadata, docs, cacheFile, cacheKind, cacheWritable>>

\* The command is run again later, on the same cache file, with the same
\* arguments; the source files may have been edited in between.  Followed for
\* invocations with one target language.
NextRun ==
  /\ pc \in {"done", "failed"}
  /\ Len(targetLanguages) = 1
  /\ runNo < MaxRuns
  /\ runNo' = runNo + 1
  /\ now' = now + 1
  /\ prev' = [ran |-> TRUE, completed |-> pc = "done",
              allOk |-> \A i \in 1..Len(batches) : batchClass[i] = "ok",
              batchCount |-> Len(batches),
              okStrings |-> UNION {Range(batches[i]) :
                                     i \in {k \in 1..Len(batches) : batchClass[k] = "ok"}},
              failedStrings |-> UNION {Range(batches[i]) :
                                         i \in {k \in 1..Len(batches) : batchClass[k] # "ok"}},
              docs |-> docs, outputs |-> outputs]
  /\ cacheAtStart' = cacheFile
  /\ loadedKind' = "none"
  /\ cacheWrites' = 0
  /\ docs' \in {d \in [Range(files) -> Documents \cup {DocMenuShort, Broken}] :
                  \A f \in Range(files) : d[f] \in {docs[f], Revised(docs[f])}}
  /\ pc' = "read"
  /\ pathMaps' = <<>>
  /\ translationCache' = EmptyCache
  /\ globalTranslations' = <<>>
  /\ stringsArray' = <<>>
  /\ stats' = [batchCount |-> 0, targetBatchSize |-> 0]
  /\ batches' = <<>>
  /\ batchState' = <<>>
  /\ batchClass' = <<>>
  /\ batchResult' = <<>>
  /\ requests' = <<>>
  /\ completed' = <<>>
  /\ counts' = [translated |-> 0, pruned |-> 0]
  /\ fileIdx' = 1
  /\ UNCHANGED <<bvars, fvars, auxvars, cfgvars, cacheFile, cacheKind, cacheWritable, outputs>>

Next ==
  \/ ReadSource
  \/ CompareWithCache
  \/ DispatchSingle
  \/ \E i \in 1..Len(batches) : \E response \in Responses(batches[i], lang) :
       BackendReturnSingle(i, response)
  \/ MergeSingle
  \/ PruneCache
  \/ SaveCache
  \/ RebuildSingle
  \/ DispatchMulti
  \/ \E i \in 1..Len(batches) : \E response \in Responses(batches[i], lang) :
       BackendReturnMulti(i, response)
  \/ UpdateCacheMulti
  \/ RebuildMulti
  \/ NextLanguage
  \/ NextRun

Spec == Init /\ [][Next]_vars

\* A step of the invocation itself, as opposed to the operator's later re-run.
\* Every step of an invocation moves pc, a batch's state or fileIdx, and one is
\* possible exactly as long as pc is neither "done" nor "failed".
progressvars == <<pc, batchState, fileIdx>>
RunProgress ==
  /\ pc \notin {"done", "failed"}
  /\ pc' \in {"compare", "translate", "await", "loop", "prune", "update", "save", "rebuild",
              "done", "failed"}
  /\ batchState' \in UNION {[1..n -> {"pending", "inflight", "returned"}] :
                              n \in 0..Len(stringsArray)}
  /\ fileIdx' \in 1..(Len(files) + 1)

\* The pipeline when the process keeps running and every call to the backend
\* returns: the invocation does not stop before its last step.  The metadata
\* switch plays no part in what is checked under this specification, and the
\* cache file is intact and can be written.
FairInit == Init /\ ~includeMetadata /\ cacheKind = "valid" /\ cacheWritable
FairSpec == FairInit /\ [][Next]_vars /\ WF_progressvars(RunProgress)

-----------------------------------------------------------------------------
(* SpecBatch: partition one miss list *)

BInit ==
  /\ PIdle /\ FIdle /\ AuxIdle
  /\ bMode \in {"single", "multi"}
  /\ \E n \in 1..MaxMiss : bList = [i \in 1..n |-> i]
  /\ bBatches = <<>>
  /\ bStats = [batchCount |-> 0, targetBatchSize |-> 0]
  /\ bPc = "init"

\* if (stringsToTranslateAPI.size > 0) { ... batches ... }
PartitionSingle ==
  /\ bPc = "init" /\ bMode = "single"
  /\ LET r == SingleFileBatches(bList, MAX_BATCH_SIZE)
     IN /\ bBatches' = r.batches
        /\ bStats' = [batchCount |-> r.batchCount, targetBatchSize |-> r.targetBatchSize]
  /\ bPc' = "done"
  /\ UNCHANGED <<bMode, bList, fvars, auxvars, pvars>>

\* if (stringsToTranslate.size > 0) { ... for (let i = 0; i < numBatches; i++) ... }
PartitionMulti ==
  /\ bPc = "init" /\ bMode = "multi"
  /\ LET r == MultiFileBatches(bList, MAX_BATCH_SIZE)
     IN /\ bBatches' = r.batches
        /\ bStats' = [batchCount |-> r.batchCount, targetBatchSize |-> r.targetBatchSize]
  /\ bPc' = "done"
  /\ UNCHANGED <<bMode, bList, fvars, auxvars, pvars>>

BNext == PartitionSingle \/ PartitionMulti

SpecBatch == BInit /\ [][BNext]_vars

-----------------------------------------------------------------------------
(* SpecFile: loadCache and saveCache of two processes on one cache file *)

Procs == {1, 2}

\* The caches the file can hold at the start, as the sequence of their entries
InitialFileCaches == {<<>>, <<"x">>, <<"x", "y", "z">>}

\* JSON.stringify(cache, null, 2), token by token
Serialize(cache) == <<"{">> \o cache \o <<"}">>

\* JSON.parse(data) succeeds on the text of one object only
WellFormed(content) ==
  /\ Len(content) >= 2
  /\ content[1] = "{" /\ content[Len(content)] = "}"
  /\ \A i \in 2..(Len(content) - 1) : content[i] \notin {"{", "}", "\\0"}

\* loadCache: the parsed file, or {} when access, readFile or JSON.parse throws
ReadCacheFile(content) ==
  IF WellFormed(content) THEN SubSeq(content, 2, Len(content) - 1) ELSE <<>>

\* write(fd, chunk) at the position of the file handle; a position beyond the
\* end of the file leaves a hole of zero bytes
WriteAt(content, pos, chunk) ==
  LET end == IF Len(content) > pos + Len(chunk) THEN Len(content) ELSE pos + Len(chunk)
  IN [i \in 1..end |->
        IF i > pos /\ i <= pos + Len(chunk) THEN chunk[i - pos]
        ELSE IF i <= Len(content) THEN content[i]
        ELSE "\\0"]

\* The entry a process records for the string it translated
Own(p) == IF p = 1 THEN "e1" ELSE "e2"

FInit ==
  /\ BIdle /\ PIdle /\ AuxIdle
  /\ fInitial \in InitialFileCaches
  /\ fContent = Serialize(fInitial)
  /\ fProc = [p \in Procs |-> [pc |-> "load", cache |-> <<>>, data |-> <<>>, pos |-> 0]]
  /\ fLast = 0

\* translationCache = await loadCache(resolvedCacheFile)
FLoad(p) ==
  /\ fProc[p].pc = "load"
  /\ fProc' = [fProc EXCEPT ![p].pc = "mutate", ![p].cache = ReadCacheFile(fContent)]
  /\ UNCHANGED <<fContent, fLast, fInitial, bvars, auxvars, pvars>>

\* The run records its new translation in memory; a single-file run may also
\* have pruned every other entry of the document
FMutate(p) ==
  /\ fProc[p].pc = "mutate"
  /\ \E pruned \in BOOLEAN :
       fProc' = [fProc EXCEPT ![p].pc = "save",
                              ![p].cache = IF pruned THEN <<Own(p)>>
                                           ELSE Append(fProc[p].cache, Own(p))]
  /\ UNCHANGED <<fContent, fLast, fInitial, bvars, auxvars, pvars>>

\* saveCache, fs.writeFile: the file is opened with flag 'w', which truncates it
FOpen(p) ==
  /\ fProc[p].pc = "save"
  /\ fContent' = <<>>
  /\ fProc' = [fProc EXCEPT ![p].pc = "write", ![p].data = Serialize(fProc[p].cache),
                            ![p].pos = 0]
  /\ UNCHANGED <<fLast, fInitial, bvars, auxvars, pvars>>

\* saveCache, fs.writeFile: the next chunk of the data is written; after the
\* last one the file is closed and the promise resolves
FWrite(p) ==
  /\ fProc[p].pc = "write"
  /\ LET me == fProc[p]
         chunk == SubSeq(me.data, me.pos + 1, Min(me.pos + ChunkTokens, Len(me.data)))
         last == me.pos + Len(chunk) = Len(me.data)
     IN /\ fContent' = WriteAt(fContent, me.pos, chunk)
        /\ fProc' = [fProc EXCEPT ![p].pos = me.pos + Len(chunk),
                                  ![p].pc = IF last THEN "done" ELSE "write"]
        /\ fLast' = IF last THEN p ELSE fLast
  /\ UNCHANGED <<fInitial, bvars, auxvars, pvars>>

\* The process is interrupted (killed) where it stands
FKill(p) ==
  /\ fProc[p].pc \notin {"done", "killed"}
  /\ fProc' = [fProc EXCEPT ![p].pc = "killed"]
  /\ UNCHANGED <<fContent, fLast, fInitial, bvars, auxvars, pvars>>

FNext ==
  \/ \E p \in Procs : FLoad(p)
  \/ \E p \in Procs : FMutate(p)
  \/ \E p \in Procs : FOpen(p)
  \/ \E p \in Procs : FWrite(p)
  \/ \E p \in Procs : FKill(p)

SpecFile == FInit /\ [][FNext]_vars

-----------------------------------------------------------------------------
(* SpecRebuild: flatten one document and rebuild it from a translation map *)

\* {"t": true, "z": null, "s": "Save"}
DocFlags ==
  Obj(<<K("t"), K("z"), K("s")>>, <<Num("true"), Num("null"), Str("Save")>>)
\* {"[0]": "Hello"}
DocIndexKey == Obj(<<<<"[", "0", "]">>>>, <<Str("Hello")>>)
\* {"0": 5, "[0]": "Hello"}
DocIndexKeyClash == Obj(<<K("0"), <<"[", "0", "]">>>>, <<Num("5"), Str("Hello")>>)
\* {"[0]": {"a": "Hello"}}
DocIndexKeyNested == Obj(<<<<"[", "0", "]">>>>, <<Obj(<<K("a")>>, <<Str("Hello")>>)>>)
\* {"a.b": "Bye", "a\x01b": "Hello"}
DocEscaped ==
  Obj(<<<<"a", ".", "b">>, <<"a", DOT_ESCAPE, "b">>>>, <<Str("Bye"), Str("Hello")>>)
\* {"a\x00b": "Save", "a": {"b": "Hello"}}
DocSeparator ==
  Obj(<<<<"a", PATH_SEPARATOR, "b">>, K("a")>>, <<Str("Save"), Obj(<<K("b")>>, <<Str("Hello")>>)>>)

RebuildDocuments ==
  Documents \cup {DocFlags, DocIndexKey, DocIndexKeyClash, DocIndexKeyNested, DocEscaped,
                  DocSeparator}

\* The strings at the string leaves of a document
StringsOf(doc) == {NodeAt(doc, path).v : path \in Range(LeafPaths(doc, <<>>))}

\* The translation maps over strings of the document: hash -> translation
TranslationMaps(doc) ==
  UNION {[{hashString(str) : str \in S} -> {Tr("X", "es", 1), Tr("X", "es", 2)}] :
           S \in SUBSET StringsOf(doc)}

RInit ==
  /\ BIdle /\ FIdle /\ PIdle /\ DIdle /\ KIdle /\ MIdle /\ TIdle /\ OIdle /\ WIdle /\ EIdle
  /\ rDoc \in RebuildDocuments
  /\ rPathMap = <<>>
  /\ rTranslations \in TranslationMaps(rDoc)
  /\ rJson = Undefined
  /\ rPc = "flatten"

\* const sourcePathMap = flattenObjectWithPaths(sourceJson);
RFlatten ==
  /\ rPc = "flatten"
  /\ rPathMap' = flattenObjectWithPaths(rDoc)
  /\ rPc' = "apply"
  /\ UNCHANGED <<rDoc, rTranslations, rJson, bvars, fvars, dvars, kvars, mvars, tvars, ovars, wvars, evars, pvars>>

\* let translatedJson = JSON.parse(JSON.stringify(sourceJson));
\* applyTranslations(translatedJson);
RApply ==
  /\ rPc = "apply"
  /\ rJson' = applyTranslations(rDoc, rPathMap, rTranslations)
  /\ rPc' = "done"
  /\ UNCHANGED <<rDoc, rPathMap, rTranslations, bvars, fvars, dvars, kvars, mvars, tvars, ovars, wvars, evars, pvars>>

RNext == RFlatten \/ RApply

SpecRebuild == RInit /\ [][RNext]_vars

-----------------------------------------------------------------------------
(* SpecDryRun: steps 1.5 / 2.5 and the dry-run branch *)

\* The largest number of unique strings of the documents
MaxStrings == 2

DInit ==
  /\ BIdle /\ FIdle /\ PIdle /\ RIdle /\ KIdle /\ MIdle /\ TIdle /\ OIdle /\ WIdle /\ EIdle
  /\ dOpts \in [mode : {"single", "multi"}, useCache : BOOLEAN, detectSource : BOOLEAN,
                dryRun : BOOLEAN, detectLanguage : BOOLEAN]
  /\ dStrings \in 0..MaxStrings
  /\ dCacheKind \in CacheKinds
  /\ dCalls = <<>>
  /\ dPc = "detect"

\* 1.5 / 2.5: if (detectSource && translator.detectLanguage && size > 0)
\*   sourceLang = await translator.detectLanguage(...).
\* detectLanguage of the providers sends a prompt to the backend.
DetectSourceLanguage ==
  /\ dPc = "detect"
  /\ dCalls' = IF dOpts.detectSource /\ dOpts.detectLanguage /\ dStrings > 0
               THEN Append(dCalls, "detectLanguage") ELSE dCalls
  /\ dPc' = "dryrun"
  /\ UNCHANGED <<dOpts, dStrings, dCacheKind, bvars, fvars, rvars, kvars, mvars, tvars, ovars, wvars, evars, pvars>>

\* if (dryRun) { ...report...; return; }.  With the cache enabled the report
\* loads the cache file.  On a cache that is null, processSingleFile reads
\* translationCache[sourceFilePath] and processMultipleFiles reads
\* translationCache[file] for each string, which throws.
DryRunReport ==
  /\ dPc = "dryrun" /\ dOpts.dryRun
  /\ dPc' = IF dOpts.useCache /\ loadCache(dCacheKind, EmptyCache).isNull
               /\ (dOpts.mode = "single" \/ dStrings > 0)
            THEN "failed" ELSE "returned"
  /\ UNCHANGED <<dOpts, dStrings, dCacheKind, dCalls, bvars, fvars, rvars, kvars, mvars, tvars, ovars, wvars, evars, pvars>>

\* Without --dry-run the function goes on to compare with the cache,
\* translate, save the cache and write the outputs
ProceedToTranslate ==
  /\ dPc = "dryrun" /\ ~dOpts.dryRun
  /\ dPc' = "translate"
  /\ UNCHANGED <<dOpts, dStrings, dCacheKind, dCalls, bvars, fvars, rvars, kvars, mvars, tvars, ovars, wvars, evars, pvars>>

DNext == DetectSourceLanguage \/ DryRunReport \/ ProceedToTranslate

SpecDryRun == DInit /\ [][DNext]_vars

-----------------------------------------------------------------------------
(* SpecCheckKeys: rebuild one document, then verify its keys *)

\* {"0": {"x": "Bye"}, "[0]": "Hello"}
DocIndexKeyOver ==
  Obj(<<K("0"), <<"[", "0", "]">>>>, <<Obj(<<K("x")>>, <<Str("Bye")>>), Str("Hello")>>)

CheckDocuments == {DocGreeting, DocMenu, DocFlags, DocIndexKeyOver}

\* compareKeys (helpers.js): the flattened key set of a document, all leaves
RECURSIVE KeyPaths(_, _)
RECURSIVE KeyPathsFrom(_, _, _)
KeyPaths(node, path) ==
  IF node.kind \in {"obj", "arr"} THEN KeyPathsFrom(node, path, 1) ELSE {path}
KeyPathsFrom(node, path, i) ==
  IF i > Len(node.vals) THEN {}
  ELSE KeyPaths(node.vals[i], Append(path, ChildSegment(node, i)))
         \cup KeyPathsFrom(node, path, i + 1)

\* compareKeys (helpers.js): the keys of the source that the output lacks;
\* the comparison is valid when there is none
missingKeys(sourceJson, outputJson) == KeyPaths(sourceJson, <<>>) \ KeyPaths(outputJson, <<>>)
compareKeys(sourceJson, outputJson) ==
  [isValid |-> missingKeys(sourceJson, outputJson) = {},
   missingKeys |-> missingKeys(sourceJson, outputJson)]

KInit ==
  /\ BIdle /\ FIdle /\ PIdle /\ RIdle /\ DIdle /\ MIdle /\ TIdle /\ OIdle /\ WIdle /\ EIdle
  /\ kOpts \in [mode : {"single", "multi"}, stdout : BOOLEAN, checkKeys : BOOLEAN]
  /\ kDoc \in CheckDocuments
  /\ kTranslations \in TranslationMaps(kDoc)
  /\ kOutput = Undefined
  /\ kReported = FALSE
  /\ kPc = "rebuild"

\* step 6: the rebuilt document is printed or written
KRebuild ==
  /\ kPc = "rebuild"
  /\ LET translatedJson == applyTranslations(kDoc, flattenObjectWithPaths(kDoc), kTranslations)
     IN IF translatedJson.kind = "crash"
        THEN kPc' = "failed" /\ UNCHANGED kOutput
        ELSE kPc' = "check" /\ kOutput' = translatedJson
  /\ UNCHANGED <<kOpts, kDoc, kTranslations, kReported, bvars, fvars, rvars, dvars, mvars, tvars, ovars, wvars, evars, pvars>>

\* processSingleFile: if (checkKeys) { ... if (!comparison.isValid) {
\* spinner.fail(...); process.exit(1) } }
KeyCheckingSingle ==
  /\ kPc = "check" /\ kOpts.mode = "single"
  /\ IF kOpts.checkKeys /\ ~compareKeys(kDoc, kOutput).isValid
     THEN kReported' = TRUE /\ kPc' = "exit1"
     ELSE kReported' = FALSE /\ kPc' = "finished"
  /\ UNCHANGED <<kOpts, kDoc, kTranslations, kOutput, bvars, fvars, rvars, dvars, mvars, tvars, ovars, wvars, evars, pvars>>

\* processMultipleFiles step 7: if (checkKeys && !stdout) { ... }
KeyCheckingMulti ==
  /\ kPc = "check" /\ kOpts.mode = "multi"
  /\ IF kOpts.checkKeys /\ ~kOpts.stdout /\ ~compareKeys(kDoc, kOutput).isValid
     THEN kReported' = TRUE /\ kPc' = "exit1"
     ELSE kReported' = FALSE /\ kPc' = "finished"
  /\ UNCHANGED <<kOpts, kDoc, kTranslations, kOutput, bvars, fvars, rvars, dvars, mvars, tvars, ovars, wvars, evars, pvars>>

KNext == KRebuild \/ KeyCheckingSingle \/ KeyCheckingMulti

SpecCheckKeys == KInit /\ [][KNext]_vars

-----------------------------------------------------------------------------
(* SpecMcp: the translate tools of the MCP server *)

\* A string of the request, as its characters
Nul == "NUL"
Backtick == "BACKTICK"
OutEs == <<"o", "/", "e", "s", ".", "j">>
OutLang == <<"o", "/", "{", "l", "a", "n", "g", "}", ".", "j">>
OutPattern ==
  <<"{", "d", "i", "r", "}", "/", "{", "n", "a", "m", "e", "}", ".",
    "{", "l", "a", "n", "g", "}", ".", "j">>
OutParent == <<"o", "/", ".", ".", "/", "e", "s", ".", "j">>
\* also o;es and a path with a null byte
OutputPaths ==
  {OutEs, OutLang, OutPattern, OutParent, <<"o", ";", "e", "s">>, <<"o", Nul, "j">>}
\* en.j, en/*.j, $(x), a/../../en.j, x;/../en.j
InputPaths ==
  {<<"e", "n", ".", "j">>, <<"e", "n", "/", "*", ".", "j">>, <<"$", "(", "x", ")">>,
   <<"a", "/", ".", ".", "/", ".", ".", "/", "e", "n", ".", "j">>,
   <<"x", ";", "/", ".", ".", "/", "e", "n", ".", "j">>}
\* es, "es,fr", zh-TW, e
LanguageArgs ==
  {<<"e", "s">>, <<"e", "s", ",", "f", "r">>, <<"z", "h", "-", "T", "W">>, <<"e">>}

\* The pieces of a string between the occurrences of a separator
RECURSIVE SplitOn(_, _, _, _)
SplitOn(chars, sep, i, cur) ==
  IF i > Len(chars) THEN <<cur>>
  ELSE IF chars[i] = sep THEN <<cur>> \o SplitOn(chars, sep, i + 1, <<>>)
  ELSE SplitOn(chars, sep, i + 1, Append(cur, chars[i]))

RECURSIVE JoinWith(_, _, _)
JoinWith(parts, sep, i) ==
  IF i > Len(parts) THEN <<>>
  ELSE IF i = Len(parts) THEN parts[i]
  ELSE parts[i] \o <<sep>> \o JoinWith(parts, sep, i + 1)

\* path.normalize (posix): "." and empty segments are dropped, ".." removes
\* the segment before it, a trailing separator is kept
RECURSIVE normalizeString(_, _, _, _)
normalizeString(segs, i, acc, allowAboveRoot) ==
  IF i > Len(segs) THEN acc
  ELSE IF segs[i] = <<>> \/ segs[i] = <<".">>
       THEN normalizeString(segs, i + 1, acc, allowAboveRoot)
  ELSE IF segs[i] = <<".", ".">>
       THEN IF acc # <<>> /\ acc[Len(acc)] # <<".", ".">>
            THEN normalizeString(segs, i + 1, SubSeq(acc, 1, Len(acc) - 1), allowAboveRoot)
            ELSE IF allowAboveRoot
                 THEN normalizeString(segs, i + 1, Append(acc, segs[i]), allowAboveRoot)
                 ELSE normalizeString(segs, i + 1, acc, allowAboveRoot)
  ELSE normalizeString(segs, i + 1, Append(acc, segs[i]), allowAboveRoot)

normalize(filePath) ==
  IF filePath = <<>> THEN <<".">>
  ELSE LET isAbsolute == filePath[1] = "/"
           trailingSeparator == filePath[Len(filePath)] = "/"
           body == JoinWith(normalizeString(SplitOn(filePath, "/", 1, <<>>), 1, <<>>,
                                            ~isAbsolute), "/", 1)
           tail == IF body = <<>>
                   THEN IF isAbsolute THEN <<>>
                        ELSE IF trailingSeparator THEN <<".", "/">> ELSE <<".">>
                   ELSE IF trailingSeparator THEN Append(body, "/") ELSE body
       IN IF isAbsolute THEN <<"/">> \o tail ELSE tail

\* const dangerousChars: ; & | backtick $ ( ) { } [ ] < > !
dangerousCharsNoBraces == {";", "&", "|", Backtick, "$", "(", ")", "[", "]", "<", ">", "!"}
dangerousChars == {";", "&", "|", Backtick, "$", "(", ")", "{", "}", "[", "]", "<", ">", "!"}

\* validateFilePath: the normalized path, or a throw on a null byte or on one
\* of the dangerous characters
validateFilePath(filePath) ==
  LET normalized == normalize(filePath)
  IN IF Nul \in Range(normalized) THEN [ok |-> FALSE, path |-> <<>>]
     ELSE IF Range(normalized) \cap dangerousChars # {} THEN [ok |-> FALSE, path |-> <<>>]
     ELSE [ok |-> TRUE, path |-> normalized]

Letters ==
  {"a", "b", "c", "d", "e", "f", "g", "h", "i", "j", "k", "l", "m", "n", "o", "p", "q",
   "r", "s", "t", "u", "v", "w", "x", "y", "z",
   "A", "B", "C", "D", "E", "F", "G", "H", "I", "J", "K", "L", "M", "N", "O", "P", "Q",
   "R", "S", "T", "U", "V", "W", "X", "Y", "Z"}

\* /^[a-zA-Z]{2,3}(-[a-zA-Z]{2,4})?(,[a-zA-Z]{2,3}(-[a-zA-Z]{2,4})?)*$/
validLangPattern(langArg) ==
  \A code \in Range(SplitOn(langArg, ",", 1, <<>>)) :
    LET pieces == SplitOn(code, "-", 1, <<>>)
    IN /\ Len(pieces) \in {1, 2}
       /\ Range(pieces[1]) \subseteq Letters /\ Len(pieces[1]) \in 2..3
       /\ Len(pieces) = 2 => (Range(pieces[2]) \subseteq Letters /\ Len(pieces[2]) \in 2..4)

\* validateContext: if (context.length > 1000) throw
MaxContextLength == 1000
ContextLengths == {0, 20, MaxContextLength + 1}
validateContextUnlimited(contextLength) == TRUE
validateContext(contextLength) == contextLength <= MaxContextLength

\* An element of cmdArgs: a literal of the server, or a string of the request
Lit(text) == [text |-> text, chars |-> <<>>]
Arg(chars) == [text |-> "", chars |-> chars]

\* cmdArgs of translate_json and translate_multiple
cmdArgsOf(input, langArg, output, showStats) ==
  <<Arg(input), Lit("-l"), Arg(langArg), Lit("-o"), Arg(output), Lit("--provider"),
    Lit(IF mEnv.TRANSLATOR_PROVIDER = "" THEN "gemini" ELSE mEnv.TRANSLATOR_PROVIDER)>>
    \o (IF showStats THEN <<Lit("--stats")>> ELSE <<>>)
    \o (IF mEnv.GEMINI_MODEL THEN <<Lit("--gemini-model"), Lit("GEMINI_MODEL")>> ELSE <<>>)
    \o (IF mEnv.OPENAI_MODEL THEN <<Lit("--openai-model"), Lit("OPENAI_MODEL")>> ELSE <<>>)
    \o (IF mArgs.context > 0 THEN <<Lit("--context"), Lit("context")>> ELSE <<>>)

\* if (text.length > 10000) throw
MaxTextLength == 10000
TextLengths == {0, 5, MaxTextLength + 1}

\* '--provider', provider and the model options taken from the environment
providerArgs ==
  <<Lit("--provider"),
    Lit(IF mEnv.TRANSLATOR_PROVIDER = "" THEN "gemini" ELSE mEnv.TRANSLATOR_PROVIDER)>>
modelArgs ==
  (IF mEnv.GEMINI_MODEL THEN <<Lit("--gemini-model"), Lit("GEMINI_MODEL")>> ELSE <<>>)
    \o (IF mEnv.OPENAI_MODEL THEN <<Lit("--openai-model"), Lit("OPENAI_MODEL")>> ELSE <<>>)

MInit ==
  /\ BIdle /\ FIdle /\ PIdle /\ RIdle /\ DIdle /\ KIdle /\ TIdle /\ OIdle /\ WIdle /\ EIdle
  /\ mTool \in {"translate_json", "translate_multiple", "detect_language",
                "validate_translation", "translate_string"}
  /\ mArgs \in [input : InputPaths, targetLanguage : LanguageArgs, output : OutputPaths,
                showStats : BOOLEAN, context : ContextLengths, text : TextLengths]
  \* the arguments that a tool does not take are left at one value
  /\ mTool # "translate_multiple" => ~mArgs.showStats
  /\ mTool # "translate_string" => mArgs.text = 0
  /\ mTool \in {"detect_language", "translate_string"} => mArgs.output = OutEs
  /\ mTool = "translate_string" => mArgs.input = <<"e", "n", ".", "j">>
  /\ mTool \in {"detect_language", "validate_translation"} =>
       (mArgs.targetLanguage = <<"e", "s">> /\ mArgs.context = 0)
  /\ mEnv \in [TRANSLATOR_PROVIDER : {"", "ollama"}, GEMINI_MODEL : BOOLEAN,
               OPENAI_MODEL : BOOLEAN]
  /\ mCmdArgs = <<>>
  /\ mReads = <<>>
  /\ mPc = "request"

\* if (name === "translate_json"): the inputs are validated, the argument
\* list is built and translator-ai is run; a throw of a validator or a
\* failing run is answered with isError
TranslateJson ==
  /\ mPc = "request" /\ mTool = "translate_json"
  /\ LET safeInputFile == validateFilePath(mArgs.input)
         safeOutputFile == validateFilePath(mArgs.output)
     IN IF safeInputFile.ok /\ safeOutputFile.ok /\ validLangPattern(mArgs.targetLanguage)
           /\ validateContext(mArgs.context)
        THEN /\ mCmdArgs' = cmdArgsOf(safeInputFile.path, mArgs.targetLanguage,
                                      safeOutputFile.path, FALSE)
             /\ mPc' \in {"ok", "cli_error"}
        ELSE /\ mPc' = "validation_error"
             /\ UNCHANGED mCmdArgs
  /\ UNCHANGED <<mTool, mArgs, mEnv, mReads, bvars, fvars, rvars, dvars, kvars, tvars, ovars, wvars, evars, pvars>>

\* if (name === "translate_multiple")
TranslateMultiple ==
  /\ mPc = "request" /\ mTool = "translate_multiple"
  /\ LET safePattern == validateFilePath(mArgs.input)
         safeOutputPattern == validateFilePath(mArgs.output)
     IN IF safePattern.ok /\ validLangPattern(mArgs.targetLanguage) /\ safeOutputPattern.ok
           /\ validateContext(mArgs.context)
        THEN /\ mCmdArgs' = cmdArgsOf(safePattern.path, mArgs.targetLanguage,
                                      safeOutputPattern.path, mArgs.showStats)
             /\ mPc' \in {"ok", "cli_error"}
        ELSE /\ mPc' = "validation_error"
             /\ UNCHANGED mCmdArgs
  /\ UNCHANGED <<mTool, mArgs, mEnv, mReads, bvars, fvars, rvars, dvars, kvars, tvars, ovars, wvars, evars, pvars>>

\* if (name === "detect_language")
DetectLanguage ==
  /\ mPc = "request" /\ mTool = "detect_language"
  /\ LET safeInputFile == validateFilePath(mArgs.input)
     IN IF safeInputFile.ok
        THEN /\ mCmdArgs' = <<Arg(safeInputFile.path), Lit("-l"), Lit("en"), Lit("-o"),
                              Lit("/dev/null"), Lit("--detect-source"), Lit("--dry-run")>>
                              \o providerArgs \o modelArgs
             /\ mPc' \in {"ok", "cli_error"}
        ELSE /\ mPc' = "validation_error"
             /\ UNCHANGED mCmdArgs
  /\ UNCHANGED <<mTool, mArgs, mEnv, mReads, bvars, fvars, rvars, dvars, kvars, tvars, ovars, wvars, evars, pvars>>

\* if (name === "validate_translation"): both paths are validated, then the
\* two files are read and parsed; the second is not read when the first
\* read throws
ValidateTranslation ==
  /\ mPc = "request" /\ mTool = "validate_translation"
  /\ LET safeSourceFile == validateFilePath(mArgs.input)
         safeTranslatedFile == validateFilePath(mArgs.output)
     IN IF safeSourceFile.ok /\ safeTranslatedFile.ok
        THEN \/ mReads' = <<safeSourceFile.path>> /\ mPc' = "io_error"
             \/ /\ mReads' = <<safeSourceFile.path, safeTranslatedFile.path>>
                /\ mPc' \in {"ok", "io_error"}
        ELSE /\ mPc' = "validation_error"
             /\ UNCHANGED mReads
  /\ UNCHANGED <<mTool, mArgs, mEnv, mCmdArgs, bvars, fvars, rvars, dvars, kvars, tvars, ovars, wvars, evars, pvars>>

\* if (name === "translate_string"): the language, the context and the text
\* length are checked, the text is written to a temporary file, and
\* translator-ai is run on it
TranslateString ==
  /\ mPc = "request" /\ mTool = "translate_string"
  /\ IF validLangPattern(mArgs.targetLanguage) /\ validateContext(mArgs.context)
        /\ mArgs.text > 0 /\ mArgs.text <= MaxTextLength
     THEN \/ mPc' = "io_error" /\ UNCHANGED mCmdArgs
          \/ /\ mCmdArgs' = <<Lit("tempInput"), Lit("-l"), Arg(mArgs.targetLanguage),
                              Lit("-o"), Lit("tempOutput")>> \o providerArgs \o modelArgs
                              \o (IF mArgs.context > 0
                                  THEN <<Lit("--context"), Lit("context")>> ELSE <<>>)
             /\ mPc' \in {"ok", "cli_error", "io_error"}
     ELSE /\ mPc' = "validation_error"
          /\ UNCHANGED mCmdArgs
  /\ UNCHANGED <<mTool, mArgs, mEnv, mReads, bvars, fvars, rvars, dvars, kvars, tvars, ovars, wvars, evars, pvars>>

MNext ==
  \/ TranslateJson
  \/ TranslateMultiple
  \/ DetectLanguage
  \/ ValidateTranslation
  \/ TranslateString

SpecMcp == MInit /\ [][MNext]_vars

-----------------------------------------------------------------------------
(* SpecFactory: TranslatorFactory.create *)

\* An optional field of the configuration that was not given
Unset == "<undefined>"
\* "" and undefined are falsy
Falsy(v) == v = "" \/ v = Unset
OrElse(a, b) == IF Falsy(a) THEN b ELSE a

\* constructor(apiKey: string, modelName: string = 'gemini-3-flash-preview')
GeminiTranslator(apiKey, modelName) ==
  [class |-> "GeminiTranslator", name |-> "Google Gemini",
   modelName |-> IF modelName = Unset THEN "gemini-3-flash-preview" ELSE modelName]

\* this.model = config.model || 'deepseek-r1:latest'
OllamaTranslator(model) ==
  [class |-> "OllamaTranslator", name |-> "Ollama (Local)",
   modelName |-> OrElse(model, "deepseek-r1:latest")]

\* constructor(apiKey: string, modelName: string = 'gpt-4o-mini')
OpenAITranslator(apiKey, modelName) ==
  [class |-> "OpenAITranslator", name |-> "OpenAI",
   modelName |-> IF modelName = Unset THEN "gpt-4o-mini" ELSE modelName]

\* detectType: Gemini when a Gemini key is there, else OpenAI when an OpenAI
\* key is there, else Ollama
detectType(config, env) ==
  IF ~Falsy(OrElse(config.geminiApiKey, env.GEMINI_API_KEY)) THEN "gemini"
  ELSE IF ~Falsy(OrElse(config.openaiApiKey, env.OPENAI_API_KEY)) THEN "openai"
  ELSE "ollama"

\* const type = config.type || this.detectType(config);
typeOfDetectionFirst(config, env) == detectType(config, env)
typeOf(config, env) == IF Falsy(config.type) THEN detectType(config, env) ELSE config.type

TInit ==
  /\ BIdle /\ FIdle /\ PIdle /\ RIdle /\ DIdle /\ KIdle /\ MIdle /\ OIdle /\ WIdle /\ EIdle
  /\ tConfig \in [type : {Unset, "gemini", "ollama", "openai", "deepl"},
                  geminiApiKey : {Unset, "config-key"},
                  openaiApiKey : {Unset, "config-key"},
                  geminiModel : {Unset, "", "gemini-pro"},
                  ollamaModel : {Unset, "llama3"},
                  openaiModel : {Unset}]
  /\ tEnv \in [GEMINI_API_KEY : {Unset, "", "env-key"}, OPENAI_API_KEY : {Unset, "env-key"}]
  /\ tOllamaUp \in BOOLEAN
  /\ tResult = NoProvider
  /\ tPc = "create"

\* static async create(config)
Create ==
  /\ tPc = "create"
  /\ LET type == typeOf(tConfig, tEnv)
     IN IF type = "ollama"
        THEN IF tOllamaUp
             THEN tResult' = OllamaTranslator(tConfig.ollamaModel) /\ tPc' = "returned"
             ELSE tPc' = "thrown" /\ UNCHANGED tResult
        ELSE IF type = "openai"
        THEN LET openaiKey == OrElse(tConfig.openaiApiKey, tEnv.OPENAI_API_KEY)
             IN IF Falsy(openaiKey)
                THEN tPc' = "thrown" /\ UNCHANGED tResult
                ELSE /\ tResult' = OpenAITranslator(openaiKey, tConfig.openaiModel)
                     /\ tPc' = "returned"
        ELSE LET apiKey == OrElse(tConfig.geminiApiKey, tEnv.GEMINI_API_KEY)
             IN IF Falsy(apiKey)
                THEN tPc' = "thrown" /\ UNCHANGED tResult
                ELSE /\ tResult' = GeminiTranslator(apiKey, tConfig.geminiModel)
                     /\ tPc' = "returned"
  /\ UNCHANGED <<tConfig, tEnv, tOllamaUp, bvars, fvars, rvars, dvars, kvars, mvars, ovars, wvars, evars, pvars>>

TNext == Create

SpecFactory == TInit /\ [][TNext]_vars

-----------------------------------------------------------------------------
(* SpecOllama: OllamaTranslator.translate *)

\* private maxRetries: number = 5
maxRetries == 5
\* The translate calls of one start: the batches of processSingleFile
NCalls == 2
Calls == 1..NCalls
MaxStarts == 2

RECURSIVE Pow2(_)
Pow2(n) == IF n = 0 THEN 1 ELSE 2 * Pow2(n - 1)

\* const baseWaitTime = Math.min(1000 * Math.pow(2, attempt - 1), 10000);
baseWaitTimeLinear(attempt) == Min(1000 * attempt, 10000)
baseWaitTime(attempt) == Min(1000 * Pow2(attempt - 1), 10000)

\* if (attempt === 2) this.useJsonFormat = false;
\* else if (attempt === 3) this.useSimplifiedPrompt = true;
simplerAfterEarly(attempt, flags) ==
  IF attempt = 1 THEN [flags EXCEPT !.json = FALSE]
  ELSE IF attempt = 2 THEN [flags EXCEPT !.simplified = TRUE]
  ELSE flags
simplerAfter(attempt, flags) ==
  IF attempt = 2 THEN [flags EXCEPT !.json = FALSE]
  ELSE IF attempt = 3 THEN [flags EXCEPT !.simplified = TRUE]
  ELSE flags

\* attemptTranslation up to its fetch: the prompt is chosen by
\* this.useSimplifiedPrompt and format: 'json' is added under
\* this.useJsonFormat, both read when the attempt starts
Request(json, simplified) ==
  [json |-> json, simplified |-> simplified, outcome |-> "pending"]

Active(c) == oPc[c] \in {"inflight", "waiting"}

OInit ==
  /\ BIdle /\ FIdle /\ PIdle /\ RIdle /\ DIdle /\ KIdle /\ MIdle /\ TIdle /\ WIdle /\ EIdle
  /\ oPipeline \in {"single", "multi"}
  /\ useJsonFormat = TRUE /\ useSimplifiedPrompt = FALSE
  /\ oPc = [c \in Calls |-> "idle"]
  /\ oLog = [c \in Calls |-> <<>>]
  /\ oWaits = [c \in Calls |-> <<>>]
  /\ oEarlier = [json |-> TRUE, simplified |-> FALSE]
  /\ oStarted = 0

\* processSingleFile: batches.map starts translateBatch, and with it
\* translator.translate, for every batch before any request is answered.
\* Each call resets the two fields and starts its first attempt.
StartBatches ==
  /\ oPipeline = "single" /\ oStarted < MaxStarts
  /\ \A c \in Calls : ~Active(c)
  /\ oEarlier' = [json |-> useJsonFormat, simplified |-> useSimplifiedPrompt]
  /\ useJsonFormat' = TRUE /\ useSimplifiedPrompt' = FALSE
  /\ oPc' = [c \in Calls |-> "inflight"]
  /\ oLog' = [c \in Calls |-> <<Request(TRUE, FALSE)>>]
  /\ oWaits' = [c \in Calls |-> <<>>]
  /\ oStarted' = oStarted + 1
  /\ UNCHANGED <<oPipeline, bvars, fvars, rvars, dvars, kvars, mvars, tvars, wvars, evars, pvars>>

\* processMultipleFiles: each batch is awaited before the next one starts
StartCall ==
  /\ oPipeline = "multi" /\ oStarted < MaxStarts
  /\ \A c \in Calls : ~Active(c)
  /\ LET c == (oStarted % NCalls) + 1
     IN /\ oPc' = [oPc EXCEPT ![c] = "inflight"]
        /\ oLog' = [oLog EXCEPT ![c] = <<Request(TRUE, FALSE)>>]
        /\ oWaits' = [oWaits EXCEPT ![c] = <<>>]
  /\ oEarlier' = [json |-> useJsonFormat, simplified |-> useSimplifiedPrompt]
  /\ useJsonFormat' = TRUE /\ useSimplifiedPrompt' = FALSE
  /\ oStarted' = oStarted + 1
  /\ UNCHANGED <<oPipeline, bvars, fvars, rvars, dvars, kvars, mvars, tvars, wvars, evars, pvars>>

\* attemptTranslation resolves: return result
AttemptSucceeds(c) ==
  /\ oPc[c] = "inflight"
  /\ oLog' = [oLog EXCEPT ![c][Len(oLog[c])].outcome = "ok"]
  /\ oPc' = [oPc EXCEPT ![c] = "returned"]
  /\ UNCHANGED <<oPipeline, useJsonFormat, useSimplifiedPrompt, oWaits, oEarlier, oStarted,
                 bvars, fvars, rvars, dvars, kvars, mvars, tvars, wvars, evars, pvars>>

\* attemptTranslation rejects: the catch block up to its setTimeout, or the
\* end of the loop and the throw
AttemptFails(c) ==
  /\ oPc[c] = "inflight"
  /\ oLog' = [oLog EXCEPT ![c][Len(oLog[c])].outcome = "failed"]
  /\ LET attempt == Len(oLog[c])
     IN IF attempt < maxRetries
        THEN /\ oWaits' = [oWaits EXCEPT ![c] = Append(@, baseWaitTime(attempt))]
             /\ oPc' = [oPc EXCEPT ![c] = "waiting"]
        ELSE /\ oPc' = [oPc EXCEPT ![c] = "thrown"]
             /\ UNCHANGED oWaits
  /\ UNCHANGED <<oPipeline, useJsonFormat, useSimplifiedPrompt, oEarlier, oStarted,
                 bvars, fvars, rvars, dvars, kvars, mvars, tvars, wvars, evars, pvars>>

\* The timer fires: the fields are changed after attempts 2 and 3, and the
\* next attempt starts with the fields as they are now
WaitOver(c) ==
  /\ oPc[c] = "waiting"
  /\ LET attempt == Len(oLog[c])
         flags == simplerAfter(attempt, [json |-> useJsonFormat,
                                         simplified |-> useSimplifiedPrompt])
     IN /\ useJsonFormat' = flags.json
        /\ useSimplifiedPrompt' = flags.simplified
        /\ oLog' = [oLog EXCEPT ![c] = Append(@, Request(flags.json, flags.simplified))]
  /\ oPc' = [oPc EXCEPT ![c] = "inflight"]
  /\ UNCHANGED <<oPipeline, oWaits, oEarlier, oStarted,
                 bvars, fvars, rvars, dvars, kvars, mvars, tvars, wvars, evars, pvars>>

ONext ==
  \/ StartBatches
  \/ StartCall
  \/ \E c \in Calls : AttemptSucceeds(c)
  \/ \E c \in Calls : AttemptFails(c)
  \/ \E c \in Calls : WaitOver(c)

SpecOllama == OInit /\ [][ONext]_vars

\* Every request is answered and every timer fires
SpecOllamaFair ==
  /\ SpecOllama
  /\ \A c \in Calls : WF_ovars(AttemptSucceeds(c) \/ AttemptFails(c))
  /\ \A c \in Calls : WF_ovars(WaitOver(c))

-----------------------------------------------------------------------------
(* SpecOutput: the output paths of one invocation *)

\* Paths and templates are sequences of tokens: names, "/", ".", ".json" and
\* the placeholders
PathAX == <<"/", "a", "/", "x", ".json">>
PathAY == <<"/", "a", "/", "y", ".json">>
PathBX == <<"/", "b", "/", "x", ".json">>
PathAXBare == <<"/", "a", "/", "x">>
InputFiles == {PathAX, PathAY, PathBX, PathAXBare}
\* out.json, out/{lang}.json, out/{name}.json, {dir}/{name}.{lang}.json,
\* out/{name}.{lang}.json
OutFixed == <<"out", ".json">>
OutByLang == <<"out", "/", "{lang}", ".json">>
OutByName == <<"out", "/", "{name}", ".json">>
OutFull == <<"{dir}", "/", "{name}", ".", "{lang}", ".json">>
OutNameLang == <<"out", "/", "{name}", ".", "{lang}", ".json">>
OutputOptions == {<<>>, OutFixed, OutByLang, OutByName, OutFull, OutNameLang}

\* String.prototype.replace with a global pattern: every occurrence
RECURSIVE replace(_, _, _)
replace(chars, token, by) ==
  IF chars = <<>> THEN <<>>
  ELSE (IF Head(chars) = token THEN by ELSE <<Head(chars)>>) \o replace(Tail(chars), token, by)

LastSlash(filePath) ==
  IF "/" \in Range(filePath)
  THEN CHOOSE k \in 1..Len(filePath) :
         filePath[k] = "/" /\ \A j \in (k + 1)..Len(filePath) : filePath[j] # "/"
  ELSE 0

\* path.dirname
dirname(filePath) ==
  IF LastSlash(filePath) = 0 THEN <<".">>
  ELSE IF LastSlash(filePath) = 1 THEN <<"/">>
  ELSE SubSeq(filePath, 1, LastSlash(filePath) - 1)

\* path.basename(filePath, '.json')
basename(filePath, ext) ==
  LET name == SubSeq(filePath, LastSlash(filePath) + 1, Len(filePath))
  IN IF Len(name) > 1 /\ name[Len(name)] = ext THEN SubSeq(name, 1, Len(name) - 1) ELSE name

\* path.join(dir, file)
join(dir, file) == IF dir[Len(dir)] = "/" THEN dir \o file ELSE dir \o <<"/">> \o file

\* processSingleFile: output.replace(/\{lang\}/g, lang)
finalOutput(output, l) == replace(output, "{lang}", <<l>>)

\* processMultipleFiles step 2: the template with {dir}, {name} and {lang}
\* replaced, or by default the source's directory and name with the
\* language as a suffix
outputPath(filePath, outputPattern, l) ==
  IF outputPattern # <<>>
  THEN replace(replace(replace(outputPattern, "{dir}", dirname(filePath)),
                       "{name}", basename(filePath, ".json")), "{lang}", <<l>>)
  ELSE join(dirname(filePath), basename(filePath, ".json") \o <<".", l, ".json">>)

\* const isSingleFile = inputFiles.length === 1 && no glob character
isSingleFile == Len(wFiles) = 1

WInit ==
  /\ BIdle /\ FIdle /\ PIdle /\ RIdle /\ DIdle /\ KIdle /\ MIdle /\ TIdle /\ OIdle /\ EIdle
  /\ wFiles \in {<<f>> : f \in InputFiles}
                  \cup {<<f, g>> : <<f, g>> \in {x \in InputFiles \X InputFiles : x[1] # x[2]}}
  /\ wOutput \in OutputOptions
  \* main refuses an invocation with neither -o nor --stdout, and one with both
  /\ wStdout = (wOutput = <<>>)
  /\ wLangs \in {<<"es">>, <<"es", "fr">>}
  /\ wLangIdx = 1
  /\ wPaths = <<>>
  /\ wFileIdx = 0
  /\ wWritten = <<>>

\* main's loop body for one file: processSingleFile, whose final step prints
\* the document or writes it to finalOutput; without --stdout and -o nothing
\* is written
WriteSingle ==
  /\ isSingleFile /\ wLangIdx <= Len(wLangs)
  /\ wWritten' =
       IF ~wStdout /\ wOutput # <<>>
       THEN Append(wWritten, [file |-> wFiles[1], lang |-> wLangs[wLangIdx],
                              path |-> finalOutput(wOutput, wLangs[wLangIdx])])
       ELSE wWritten
  /\ wLangIdx' = wLangIdx + 1
  /\ UNCHANGED <<wFiles, wOutput, wStdout, wLangs, wPaths, wFileIdx,
                 bvars, fvars, rvars, dvars, kvars, mvars, tvars, ovars, evars, pvars>>

\* processMultipleFiles step 2: the output path of every file
CollectOutputPaths ==
  /\ ~isSingleFile /\ wLangIdx <= Len(wLangs) /\ wFileIdx = 0
  /\ wPaths' = [i \in 1..Len(wFiles) |->
                  IF wStdout THEN <<"stdout">>
                  ELSE outputPath(wFiles[i], wOutput, wLangs[wLangIdx])]
  /\ wFileIdx' = 1
  /\ UNCHANGED <<wFiles, wOutput, wStdout, wLangs, wLangIdx, wWritten,
                 bvars, fvars, rvars, dvars, kvars, mvars, tvars, ovars, evars, pvars>>

\* processMultipleFiles step 6 for one file; after the last file main goes
\* on to the next language
WriteNextFile ==
  /\ ~isSingleFile /\ wFileIdx >= 1
  /\ wWritten' =
       IF wStdout THEN wWritten
       ELSE Append(wWritten, [file |-> wFiles[wFileIdx], lang |-> wLangs[wLangIdx],
                              path |-> wPaths[wFileIdx]])
  /\ IF wFileIdx < Len(wFiles)
     THEN wFileIdx' = wFileIdx + 1 /\ UNCHANGED <<wLangIdx, wPaths>>
     ELSE wFileIdx' = 0 /\ wLangIdx' = wLangIdx + 1 /\ wPaths' = <<>>
  /\ UNCHANGED <<wFiles, wOutput, wStdout, wLangs,
                 bvars, fvars, rvars, dvars, kvars, mvars, tvars, ovars, evars, pvars>>

WNext == WriteSingle \/ CollectOutputPaths \/ WriteNextFile

SpecOutput == WInit /\ [][WNext]_vars

-----------------------------------------------------------------------------
(* SpecEquiv: processSingleFile and processMultipleFiles on one document *)

\* MAX_BATCH_SIZE scaled down for the side-by-side run: the smallest size at
\* which the two ways of slicing differ
WideBatch == 3

\* A flat document with one string more than a batch holds:
\* {"k001": "s001", "k002": "s002", ...}
WideSize == WideBatch + 1
Numeral(i) ==
  <<Digits[((i \div 100) % 10) + 1], Digits[((i \div 10) % 10) + 1], Digits[(i % 10) + 1]>>
WideString(i) == "s" \o Numeral(i)[1] \o Numeral(i)[2] \o Numeral(i)[3]
DocWide ==
  Obj([i \in 1..WideSize |-> <<"k">> \o Numeral(i)], [i \in 1..WideSize |-> Str(WideString(i))])
EquivDocuments == {DocGreeting, DocMenu, DocWide}

\* A backend whose answer for a string does not depend on the request the
\* string is in: every call fails, or every string gets its translation in
\* one wording, but for one string, which comes back empty
Backends ==
  {[fails |-> TRUE, wording |-> 1, blank |-> ""]}
    \cup [fails : {FALSE}, wording : {1, 2}, blank : {"", "Bye", WideString(WideSize)}]
backendAnswer(strings, l, backend) ==
  IF backend.fails THEN Failure
  ELSE Answer([i \in 1..Len(strings) |->
                 IF strings[i] = backend.blank THEN "" ELSE Tr(strings[i], l, backend.wording)])

\* translateBatch for every batch, in the order of the batches
BatchResults(bs, l, backend) ==
  [i \in 1..Len(bs) |-> translateBatch(bs[i], backendAnswer(bs[i], l, backend)).map]

EInit ==
  /\ BIdle /\ FIdle /\ PIdle /\ RIdle /\ DIdle /\ KIdle /\ MIdle /\ TIdle /\ OIdle /\ WIdle
  /\ eDoc \in EquivDocuments
  /\ eCache \in InitialCaches
  /\ eLang \in Langs
  /\ eUseCache \in BOOLEAN
  /\ eWritable \in BOOLEAN
  /\ eBackend \in Backends
  /\ eSingle = NotStarted
  /\ eMulti = NotStarted

\* processSingleFile steps 1 to 4: flatten, compare with the cache, translate
\* the misses in batches of the dynamic size, merge, prune
SingleTranslate ==
  /\ eSingle.pc = "start"
  /\ LET sourcePathMap == flattenObjectWithPaths(eDoc)
         strings == allSourceStrings(sourcePathMap)
         key == <<"f1", eLang>>
         hits == IF eUseCache THEN SingleHits(strings, eCache[key]) ELSE <<>>
         stringsToTranslateAPI == IF eUseCache THEN SingleMisses(strings, eCache[key]) ELSE strings
         results == IF stringsToTranslateAPI = <<>> THEN <<>>
                    ELSE BatchResults(SingleFileBatches(stringsToTranslateAPI, WideBatch).batches,
                                      eLang, eBackend)
         fresh == MergeAll(results, 1, <<>>)
         merged == fresh @@ eCache[key]
         kept == PrunedEntries(sourcePathMap, merged)
         counted == [translated |-> CountAll(results, 1),
                     pruned |-> Cardinality(DOMAIN merged) - Cardinality(DOMAIN kept)]
     IN eSingle' = [pc |-> "translated",
                    translations |-> fresh @@ hits,
                    cache |-> IF eUseCache THEN [eCache EXCEPT ![key] = kept] ELSE eCache,
                    save |-> saveNeeded(eUseCache, counted),
                    pathMap |-> sourcePathMap,
                    output |-> Undefined]
  /\ UNCHANGED <<eDoc, eCache, eLang, eUseCache, eWritable, eBackend, eMulti,
                 bvars, fvars, rvars, dvars, kvars, mvars, tvars, ovars, wvars, pvars>>

\* processMultipleFiles steps 2 to 5 up to saveCache: collect, compare with
\* the cache, translate the misses in slices of MAX_BATCH_SIZE, update the cache
MultiTranslate ==
  /\ eMulti.pc = "start"
  /\ LET fs == <<"f1">>
         maps == [f \in {"f1"} |-> flattenObjectWithPaths(eDoc)]
         strings == globalStrings(fs, maps)
         hits == IF eUseCache THEN MultiHits(strings, fs, maps, eCache, eLang) ELSE <<>>
         stringsToTranslate == IF eUseCache THEN MultiMisses(strings, fs, maps, eCache, eLang)
                               ELSE strings
         results == IF stringsToTranslate = <<>> THEN <<>>
                    ELSE BatchResults(MultiFileBatches(stringsToTranslate, WideBatch).batches,
                                      eLang, eBackend)
         translations == MergeAll(results, 1, <<>>) @@ hits
         update == eUseCache /\ stringsToTranslate # <<>>
     IN eMulti' = [pc |-> "translated",
                   translations |-> translations,
                   cache |-> IF update THEN updatedCache(eCache, fs, maps, translations, eLang)
                             ELSE eCache,
                   save |-> update,
                   pathMap |-> maps["f1"],
                   output |-> Undefined]
  /\ UNCHANGED <<eDoc, eCache, eLang, eUseCache, eWritable, eBackend, eSingle,
                 bvars, fvars, rvars, dvars, kvars, mvars, tvars, ovars, wvars, pvars>>

\* The rest of either pipeline: saveCache, outside any try, then the rebuild
\* and the output
finished(run) ==
  IF run.save /\ ~eWritable THEN [run EXCEPT !.pc = "failed"]
  ELSE LET translatedJson == applyTranslations(eDoc, run.pathMap, run.translations)
       IN IF translatedJson.kind = "crash" THEN [run EXCEPT !.pc = "failed"]
          ELSE [run EXCEPT !.pc = "done", !.output = translatedJson]

\* processSingleFile steps 5 and 6
SingleFinish ==
  /\ eSingle.pc = "translated"
  /\ eSingle' = finished(eSingle)
  /\ UNCHANGED <<eDoc, eCache, eLang, eUseCache, eWritable, eBackend, eMulti,
                 bvars, fvars, rvars, dvars, kvars, mvars, tvars, ovars, wvars, pvars>>

\* processMultipleFiles: the saveCache of step 5, and step 6
MultiFinish ==
  /\ eMulti.pc = "translated"
  /\ eMulti' = finished(eMulti)
  /\ UNCHANGED <<eDoc, eCache, eLang, eUseCache, eWritable, eBackend, eSingle,
                 bvars, fvars, rvars, dvars, kvars, mvars, tvars, ovars, wvars, pvars>>

ENext == SingleTranslate \/ MultiTranslate \/ SingleFinish \/ MultiFinish

SpecEquiv == EInit /\ [][ENext]_vars

-----------------------------------------------------------------------------
(* Claims about the batch partitioning *)

RECURSIVE Concat(_)
Concat(ss) == IF ss = <<>> THEN <<>> ELSE Head(ss) \o Concat(Tail(ss))

BatchSizes == [i \in 1..Len(bBatches) |-> Len(bBatches[i])]

C9_Partition ==
  bPc = "done" =>
     /\ Len(bBatches) = Ceil(Len(bList), MAX_BATCH_SIZE)
     /\ Len(bBatches) = bStats.batchCount
     /\ \A i \in 1..Len(bBatches) :
          Len(bBatches[i]) >= 1 /\ Len(bBatches[i]) <= MAX_BATCH_SIZE
     /\ Concat(bBatches) = bList

C9_Witness ==
  bPc = "done" /\ Len(bList) > 2 * MAX_BATCH_SIZE /\ Len(bBatches) = 3

\* C10: in single-file and multi-file processing alike every dispatched batch
\* holds at most ceil(missCount / batchCount) strings, and that number is the
\* reported targetBatchSize.
C10_TargetSize ==
  bPc = "done" =>
     /\ bStats.targetBatchSize = Ceil(Len(bList), bStats.batchCount)
     /\ \A i \in 1..Len(bBatches) : Len(bBatches[i]) <= bStats.targetBatchSize

-----------------------------------------------------------------------------
(* Claims about the pipeline *)

\* The documents of the run: the source files that were read and parsed
RunFiles == Range(fileDataMap)
\* The string leaves of the documents of the run: <<file, path>>
LeafSites ==
  UNION {{<<f, LeafPaths(docs[f], <<>>)[k]>> : k \in 1..Len(LeafPaths(docs[f], <<>>))} :
           f \in RunFiles}
SourceLeaf(site) == NodeAt(docs[site[1]], site[2]).v
OutputLeaf(site) == NodeAt(outputs[site[1]].json, site[2])
\* The positions of the strings handed to the backend: <<request, index>>
SentSites == UNION {{<<i, j>> : j \in 1..Len(requests[i])} : i \in 1..Len(requests)}
SentAt(str) == {x \in SentSites : requests[x[1]][x[2]] = str}
BatchSites == UNION {{<<i, j>> : j \in 1..Len(batches[i])} : i \in 1..Len(batches)}
TranslationOver == pc \in {"prune", "save", "rebuild", "update", "done"}

\* C1: in one run for one target language every distinct leaf string is handed
\* to the backend in at most one translate request, and only cache-miss strings
\* are; a cache-miss string is a member of exactly one batch, and once the
\* translation step is over it has been requested exactly once.
C1_OneRequest ==
  /\ \A x \in SentSites :
       /\ Cardinality(SentAt(requests[x[1]][x[2]])) = 1
       /\ requests[x[1]][x[2]] \in Range(stringsArray)
       /\ requests[x[1]][x[2]] \in {SourceLeaf(site) : site \in LeafSites}
  /\ batches # <<>> =>
       \A str \in Range(stringsArray) :
         Cardinality({x \in BatchSites : batches[x[1]][x[2]] = str}) = 1
  /\ TranslationOver => \A str \in Range(stringsArray) : Cardinality(SentAt(str)) = 1

\* Two requests were made in a multi-file run whose two documents share a
\* string that occurs three times and was requested
C1_Witness ==
  /\ pc = "done" /\ mode = "multi" /\ Len(requests) = 2
  /\ docs["f1"] = DocGreeting /\ docs["f2"] = DocMenu
  /\ SentAt("Hello") # {}

\* C2: when the same leaf string occurs at several paths of one document or in
\* several documents of the run and a translation for it exists, every one of
\* its occurrences in every output document of the run holds the identical
\* translated value.
C2_SameValueEverywhere ==
  pc = "done" =>
    \A a \in LeafSites : \A b \in LeafSites :
      (SourceLeaf(a) = SourceLeaf(b) /\ Truthy(globalTranslations, hashString(SourceLeaf(a))))
        => /\ OutputLeaf(a) = OutputLeaf(b)
           /\ OutputLeaf(a) = Str(globalTranslations[hashString(SourceLeaf(a))])

\* "Hello" at a, at b.c and in the list of the second document, translated by
\* the backend in this run
C2_Witness ==
  /\ pc = "done" /\ mode = "multi"
  /\ docs["f1"] = DocGreeting /\ docs["f2"] = DocMenu
  /\ SentAt("Hello") # {}
  /\ Truthy(globalTranslations, hashString("Hello"))
  /\ OutputLeaf(<<"f1", <<K("b"), K("c")>>>>) = OutputLeaf(<<"f2", <<K("l"), IndexSegment(0)>>>>)
  /\ OutputLeaf(<<"f1", <<K("a")>>>>) # Str("Hello")

\* A repeated invocation on an unchanged document set after an invocation that
\* completed with every batch successful, the cache enabled
SecondRunUnchanged ==
  /\ runNo >= 2 /\ useCache
  /\ prev.ran /\ prev.completed /\ prev.allOk
  /\ docs = prev.docs

\* C3 (as stated): with the cache enabled, after a run that completed with
\* every batch successful, a second run over the unchanged documents with the
\* same cache file makes zero backend translate calls and produces output
\* documents identical to the first run's.
C3_AsStated ==
  SecondRunUnchanged =>
    /\ requests = <<>>
    /\ pc = "done" =>
         \A f \in RunFiles :
           /\ outputs[f].json = prev.outputs[f].json
           /\ outputs[f].timestamp = prev.outputs[f].timestamp

\* C3 (amended): with the cache enabled, after a run that completed with every
\* batch successful, a second run over the unchanged documents with the same
\* cache file makes zero backend translate calls (every unique string is a
\* cache hit) and produces output documents whose translated content is
\* identical to the first run's; without --metadata the documents are
\* identical, with --metadata they differ in the timestamp of the
\* _translator_metadata entry.
C3_Idempotent ==
  SecondRunUnchanged =>
    /\ requests = <<>>
    /\ pc \in {"translate", "prune", "update", "save", "rebuild", "done"} => stringsArray = <<>>
    /\ pc = "done" =>
         \A f \in RunFiles :
           /\ outputs[f].run = runNo
           /\ outputs[f].json = prev.outputs[f].json
           /\ ~includeMetadata => outputs[f].timestamp = prev.outputs[f].timestamp
           /\ includeMetadata => outputs[f].timestamp # prev.outputs[f].timestamp

\* The first run translated two batches, the second run is over
C3_Witness ==
  /\ SecondRunUnchanged /\ pc = "done"
  /\ prev.batchCount = 2
  /\ \A f \in RunFiles : outputs[f].run = runNo

\* C4: after any run with the cache enabled, in single-file and in multi-file
\* processing alike, the persisted cache of each processed document and target
\* language holds no fingerprint of a string that no longer occurs in the
\* document; a string removed since the previous run has its entry removed.
C4_Pruned ==
  (pc = "done" /\ useCache /\ prev.ran) =>
    \A f \in RunFiles :
      \A str \in {NodeAt(prev.docs[f], path).v : path \in Range(LeafPaths(prev.docs[f], <<>>))} :
        str \notin {SourceLeaf(site) : site \in {x \in LeafSites : x[1] = f}}
          => hashString(str) \notin DOMAIN cacheFile[<<f, lang>>]

\* Batch i contributed nothing: its result map is empty, none of its strings
\* has a translation in the run, no cache entry for any of them was added or
\* changed, in memory or in the cache file, and in the written outputs the
\* leaves holding its strings keep the original string
FailedBatchLeftOut(i) ==
  /\ DOMAIN batchResult[i] = {}
  /\ \A j \in 1..Len(batches[i]) :
       LET str == batches[i][j]
           h == hashString(str)
       IN /\ h \notin DOMAIN globalTranslations
          /\ \A key \in Files \X Langs :
               /\ h \in DOMAIN cacheFile[key] =>
                    h \in DOMAIN cacheAtStart[key] /\ cacheFile[key][h] = cacheAtStart[key][h]
               /\ h \in DOMAIN translationCache[key] =>
                    h \in DOMAIN cacheAtStart[key]
                      /\ translationCache[key][h] = cacheAtStart[key][h]
          /\ pc = "done" =>
               \A site \in LeafSites : SourceLeaf(site) = str => OutputLeaf(site) = Str(str)

\* A batch of two strings got the answer `class`, another batch succeeded, and
\* the run wrote its outputs
FailedBesideSuccessful(class) ==
  /\ pc = "done"
  /\ \E i \in 1..Len(batches) : batchClass[i] = class /\ Len(batches[i]) = 2
  /\ \E i \in 1..Len(batches) : batchClass[i] = "ok"
  /\ \A f \in RunFiles : outputs[f].run = runNo

\* C5: when the backend returns a result list whose length differs from the
\* batch's input length, the batch fails as a whole: none of its strings is
\* translated in any output document or recorded in the cache, and its leaves
\* keep their original strings.
C5_LengthMismatchFailsBatch ==
  \A i \in 1..Len(batches) : batchClass[i] = "length" => FailedBatchLeftOut(i)

C5_Witness == FailedBesideSuccessful("length") /\ useCache

\* C7: when the backend's result holds an empty (or blank, or missing)
\* translated value at any index, the whole batch is treated as failed, none
\* of its strings is translated or recorded, and the run continues: the
\* invocation is not ended by that answer, it goes on to receive the answer of
\* every other batch and to the steps after the translation.
C7_EmptyValueFailsBatch ==
  /\ \A i \in 1..Len(batches) : batchClass[i] = "empty" => FailedBatchLeftOut(i)
  /\ (\E i \in 1..Len(batches) : batchClass[i] = "empty") =>
       (pc = "failed" => \A k \in 1..Len(batches) : batchState[k] = "returned")

C7_Witness == FailedBesideSuccessful("empty") /\ useCache /\ mode = "single"

\* What the successful batches of the run returned is in the translations of
\* the run and, with the cache enabled, in the cache file under every document
\* of the run that holds the string
SuccessfulBatchesKept ==
  \A i \in 1..Len(batches) :
    batchClass[i] = "ok" =>
      \A str \in DOMAIN batchResult[i] :
        /\ Truthy(globalTranslations, hashString(str))
        /\ globalTranslations[hashString(str)] = batchResult[i][str]
        /\ useCache =>
             \A site \in LeafSites :
               SourceLeaf(site) = str =>
                 /\ hashString(str) \in DOMAIN cacheFile[<<site[1], lang>>]
                 /\ cacheFile[<<site[1], lang>>][hashString(str)] = batchResult[i][str]
        /\ \A site \in LeafSites :
             SourceLeaf(site) = str => OutputLeaf(site) = Str(batchResult[i][str])

RunCompleted ==
  /\ pc = "done"
  /\ \A f \in RunFiles : outputs[f].written /\ outputs[f].run = runNo
  /\ \A i \in 1..Len(batches) : batchState[i] = "returned"
  /\ SuccessfulBatchesKept

SomeBatchFailed ==
  \E i \in 1..Len(batches) : batchClass[i] \in {"error", "length", "empty"}

\* C6: a failed batch never blocks the others: in every run in which some
\* batch fails and every backend call eventually returns, the results of all
\* successful batches are merged, recorded in the cache and persisted, and
\* the output of every parsed document is eventually written.
C6_FailedBatchDoesNotBlock ==
  \A r \in 1..MaxRuns :
    (runNo = r /\ SomeBatchFailed) ~> (runNo = r /\ RunCompleted)

C6_Witness ==
  /\ RunCompleted /\ useCache
  /\ \E i \in 1..Len(batches) : batchClass[i] = "error"
  /\ \E i \in 1..Len(batches) : batchClass[i] = "ok" /\ Len(batches[i]) = 2

-----------------------------------------------------------------------------
(* Claims about ordering and concurrency of the batches *)

\* Every batch has returned and what it returned is in the translations of
\* the run
BatchesSettledAndMerged ==
  \A i \in 1..Len(batches) :
    /\ batchState[i] = "returned"
    /\ \A str \in DOMAIN batchResult[i] :
         /\ Truthy(globalTranslations, hashString(str))
         /\ globalTranslations[hashString(str)] = batchResult[i][str]

\* C11: for each target language, no reconstruction, cache-prune or
\* cache-persist step starts while any batch of that language is still in
\* flight or has a result that is not yet merged.
C11_MergedBeforeLaterSteps ==
  pc \in {"prune", "save", "update", "rebuild", "done"} => BatchesSettledAndMerged

\* The prune step is about to start in a single-file run whose second batch
\* returned before its first
C11_Witness ==
  /\ pc = "prune" /\ mode = "single"
  /\ completed = <<2, 1>>
  /\ \E i \in 1..Len(batches) : DOMAIN batchResult[i] # {}

\* The cache hits of the run, as the compare step found them
HitsOfRun ==
  IF ~useCache THEN <<>>
  ELSE IF mode = "single"
  THEN SingleHits(allSourceStrings(pathMaps[files[1]]), cacheAtStart[<<files[1], lang>>])
  ELSE MultiHits(globalStrings(fileDataMap, pathMaps), fileDataMap, pathMaps, cacheAtStart, lang)

\* The per-batch results merged in the order `order` of the batches
MergedInOrder(order) ==
  MergeAll([k \in 1..Len(batches) |-> batchResult[order[k]]], 1, <<>>) @@ HitsOfRun

\* C12: for a fixed set of batches and fixed per-batch backend results the
\* merged fingerprint-to-translation map, and with it the cache and the output
\* documents, is the same for every order in which the concurrently dispatched
\* batches complete: merging the results in any order of the batches gives the
\* map the run holds, the entries it records and the documents it writes.
C12_OrderIndependent ==
  (mode = "single" /\ pc \in {"prune", "save", "rebuild", "done"}) =>
    \A order \in Permutations(1..Len(batches)) :
      /\ globalTranslations = MergedInOrder(order)
      /\ (useCache /\ pc \in {"save", "rebuild", "done"}) =>
           translationCache[<<files[1], lang>>] =
             PrunedEntries(pathMaps[files[1]],
                           MergeAll([k \in 1..Len(batches) |-> batchResult[order[k]]], 1, <<>>)
                             @@ cacheAtStart[<<files[1], lang>>])
      /\ pc = "done" =>
           outputs[files[1]].json =
             applyTranslations(docs[files[1]], pathMaps[files[1]], MergedInOrder(order))

\* Both batches of a single-file run succeeded, the later one first, and the
\* run wrote its output
C12_Witness ==
  /\ pc = "done" /\ mode = "single" /\ useCache
  /\ completed = <<2, 1>>
  /\ \A i \in 1..Len(batches) : batchClass[i] = "ok"

\* C13: batches of one target language are submitted to the backend
\* concurrently, in single-file and in multi-file processing alike: with two
\* or more batches a later batch is submitted before an earlier batch's
\* backend call has completed.  (The dispatch code makes no choices, so a
\* later batch that can be submitted while an earlier one is in flight has
\* been submitted whenever an earlier one is in flight.)
C13_ConcurrentSubmission ==
  \A i \in 1..Len(batches) : \A j \in 1..Len(batches) :
    (i < j /\ batchState[i] = "inflight") => batchState[j] # "pending"

-----------------------------------------------------------------------------
(* Claims about the cache file *)

\* Process p is the only one that has opened the cache file for writing
OnlyWriter(p) == \A q \in Procs \ {p} : fProc[q].data = <<>>

\* C14: persisting the cache is all-or-nothing: if the process is interrupted
\* at any point during the cache write, the cache file afterwards holds either
\* the complete previously persisted cache or the complete new cache, never an
\* empty or partially written one.
C14_AllOrNothing ==
  \A p \in Procs :
    (fProc[p].pc = "killed" /\ OnlyWriter(p)) =>
      fContent \in {Serialize(fInitial), Serialize(fProc[p].cache)}

\* C18: when two separate runs against the same cache file overlap (each
\* loads, mutates in memory, then persists), the cache file after both have
\* finished is exactly the full in-memory cache of the run that persisted
\* last; entries recorded only by the other run may be lost, and no other
\* mixture of the two is produced.
C18_LastPersistWins ==
  (\A p \in Procs : fProc[p].pc = "done") => fContent = Serialize(fProc[fLast].cache)

-----------------------------------------------------------------------------
(* Claims about the cache across documents and across runs *)

\* The compare step of the run is over
Compared == pc \in {"translate", "await", "loop", "prune", "update", "save", "rebuild", "done"}

\* The documents of the run that hold the string
Holders(str) == {site[1] : site \in {x \in LeafSites : SourceLeaf(x) = str}}

\* C19: in a multi-document run with the cache enabled, a string that has no
\* cache entry under one document containing it but has an entry for the same
\* target language and fingerprint under another document of the run
\* containing it is a cache hit: it is not dispatched to the backend and every
\* document containing it receives the cached translation.
C19_CrossDocumentHit ==
  (mode = "multi" /\ useCache /\ Compared) =>
    \A str \in {SourceLeaf(site) : site \in LeafSites} :
      LET h == hashString(str)
          with == {f \in Holders(str) : Truthy(cacheAtStart[<<f, lang>>], h)}
      IN (with # {} /\ Holders(str) \ with # {}) =>
           /\ str \notin Range(stringsArray)
           /\ SentAt(str) = {}
           /\ Truthy(globalTranslations, h)
           /\ globalTranslations[h] \in {cacheAtStart[<<f, lang>>][h] : f \in with}
           /\ pc = "done" =>
                \A site \in LeafSites :
                  SourceLeaf(site) = str => OutputLeaf(site) = Str(globalTranslations[h])

\* "Save" is cached under the second document only; the first document, which
\* comes first in the run, got the cached translation, and other strings of
\* the run went to the backend
C19_Witness ==
  /\ pc = "done" /\ mode = "multi" /\ useCache
  /\ docs["f1"] = DocSave /\ docs["f2"] = DocMenu
  /\ cacheAtStart = WarmCache
  /\ SentAt("Save") = {} /\ requests # <<>>
  /\ OutputLeaf(<<"f1", <<K("y")>>>>) = Str(Tr("Save", "es", 1))

\* A repeated invocation on an unchanged document set after an invocation that
\* completed although some of its batches failed, the cache enabled
RerunAfterPartialSuccess ==
  /\ runNo >= 2 /\ useCache
  /\ prev.ran /\ prev.completed /\ prev.failedStrings # {}
  /\ docs = prev.docs

\* C20: partial success is preserved across runs: after a run with the cache
\* enabled in which some batches failed, the persisted cache holds the
\* translations of every successful batch, and the next run over the unchanged
\* documents dispatches exactly the strings of the failed batches and no
\* others.
C20_PartialSuccessKept ==
  /\ (pc = "done" /\ useCache /\ SomeBatchFailed) =>
       \A i \in 1..Len(batches) :
         batchClass[i] = "ok" =>
           \A j \in 1..Len(batches[i]) :
             \A f \in Holders(batches[i][j]) :
               /\ hashString(batches[i][j]) \in DOMAIN cacheFile[<<f, lang>>]
               /\ cacheFile[<<f, lang>>][hashString(batches[i][j])] = batchResult[i][batches[i][j]]
  /\ (RerunAfterPartialSuccess /\ Compared) => Range(stringsArray) = prev.failedStrings
  /\ (RerunAfterPartialSuccess /\ TranslationOver) =>
       {requests[x[1]][x[2]] : x \in SentSites} = prev.failedStrings

\* The first run had a successful and a failed batch; the second run asked
\* the backend for the strings of the failed batch and is over
C20_Witness ==
  /\ RerunAfterPartialSuccess /\ pc = "done"
  /\ prev.okStrings # {}
  /\ requests # <<>>
  /\ {requests[x[1]][x[2]] : x \in SentSites} = prev.failedStrings

-----------------------------------------------------------------------------
(* Claims about loading and writing the cache file *)

\* The strings of the documents of the run
UniqueStrings == {SourceLeaf(site) : site \in LeafSites}

\* The invocation has reached the call of saveCache for the current language
SaveAttempted ==
  /\ useCache
  /\ pc \in {"rebuild", "done", "failed"}
  /\ loadedKind \notin {"none", "null"}
  /\ IF mode = "single" THEN counts.translated > 0 \/ counts.pruned > 0
                        ELSE stringsArray # <<>>
  /\ \A k \in 1..Len(batches) : batchState[k] = "returned"

\* C15: within one invocation, whatever the number of target languages and
\* documents, the cache file is written at most once, and that write comes
\* after the last change to the in-memory cache, so that at the end of the
\* invocation the file holds the in-memory cache.
C15_OneCacheWritePerRun ==
  /\ cacheWrites <= 1
  /\ (pc = "done" /\ lang = targetLanguages[Len(targetLanguages)] /\ cacheWrites = 1)
       => cacheFile = translationCache

\* C16: a failure to write the cache file is not fatal: the invocation goes on
\* and writes the translated output of every document.
C16_CacheWriteFailureNotFatal ==
  (SaveAttempted /\ ~cacheWritable /\ pc \in {"done", "failed"}) =>
    /\ pc = "done"
    /\ \A f \in RunFiles : outputs[f].written /\ outputs[f].run = runNo

\* The invocation ended in step 2 (single file) or step 3 (several files),
\* before it determined the hits and the misses
AbortedAtLoad ==
  /\ pc = "failed"
  /\ loadedKind # "none"
  /\ stringsArray = <<>> /\ globalTranslations = <<>> /\ batches = <<>>

\* The batch the string was sent in
BatchOf(str) == CHOOSE i \in 1..Len(batches) : str \in Range(batches[i])

\* A cache file that loadCache met in one of the given conditions is an empty
\* cache to the run: the run is not ended by the load, no string is a hit,
\* every string of the documents is sent to the backend, and every leaf of
\* the outputs holds what the backend returned for its string in this run, or
\* the source string when its batch failed
ProceedsAsWithEmptyCache(kinds) ==
  loadedKind \in kinds =>
    /\ ~AbortedAtLoad
    /\ Compared => Range(stringsArray) = UniqueStrings
    /\ pc = "translate" => globalTranslations = <<>>
    /\ TranslationOver => {requests[x[1]][x[2]] : x \in SentSites} = UniqueStrings
    /\ pc = "done" =>
         \A site \in LeafSites :
           LET str == SourceLeaf(site)
               i == BatchOf(str)
           IN OutputLeaf(site) = IF batchClass[i] = "ok" THEN Str(batchResult[i][str])
                                 ELSE Str(str)

\* The cache file is absent, cannot be read, or does not parse as JSON
LoadThrows == {"missing", "unreadable", "unparsable"}

\* What loadCache's catch covers: the run proceeds as with an empty cache
ThrowingLoadIsEmptyCache == ProceedsAsWithEmptyCache(LoadThrows)

ThrowingLoadWitness ==
  /\ loadedKind = "unparsable" /\ pc = "done"
  /\ \E i \in 1..Len(batches) : batchClass[i] = "ok"

\* C17: when the cache file is missing, unreadable or corrupt at load time,
\* the run proceeds as with an empty cache: every unique string is a miss
\* and is dispatched, the run is not aborted, and the outputs are those of a
\* run that started with an empty cache.
C17_DamagedCacheIsEmptyCache == ProceedsAsWithEmptyCache(CacheKinds \ {"valid"})

-----------------------------------------------------------------------------
(* Claims about documents that cannot be read *)

\* C21: in a multi-document run a document that cannot be read or parsed is
\* left out and does not abort the run: nothing is dispatched for it and no
\* output is written for it, while every other document is translated (each
\* leaf whose batch succeeded holds the backend's translation) and has its
\* output written.
C21_UnreadableDocumentExcluded ==
  (mode = "multi" /\ \E f \in Range(files) : docs[f] = Broken) =>
    /\ pc # "failed"
    /\ {requests[x[1]][x[2]] : x \in SentSites} \subseteq UniqueStrings
    /\ \A f \in Range(files) : docs[f] = Broken => outputs[f].run # runNo
    /\ pc = "done" =>
         /\ \A f \in Range(files) : docs[f] # Broken =>
              outputs[f].written /\ outputs[f].run = runNo
         /\ \A i \in 1..Len(batches) :
              batchClass[i] = "ok" =>
                \A site \in LeafSites :
                  SourceLeaf(site) \in Range(batches[i]) =>
                    OutputLeaf(site) = Str(batchResult[i][SourceLeaf(site)])

\* The first file could not be read; the second was translated and written
C21_Witness ==
  /\ pc = "done" /\ mode = "multi"
  /\ docs["f1"] = Broken /\ docs["f2"] = DocMenu
  /\ ~outputs["f1"].written
  /\ outputs["f2"].written
  /\ OutputLeaf(<<"f2", <<K("x")>>>>) = Str(Tr("Save", "es", 1))

-----------------------------------------------------------------------------
(* Claims about the reconstruction *)

\* The paths of all leaves of a tree, strings and non-strings
RECURSIVE AllLeafPaths(_, _)
RECURSIVE AllLeafPathsFrom(_, _, _)
AllLeafPaths(node, path) ==
  IF node.kind \in {"obj", "arr"} THEN AllLeafPathsFrom(node, path, 1) ELSE {path}
AllLeafPathsFrom(node, path, i) ==
  IF i > Len(node.vals) THEN {}
  ELSE AllLeafPaths(node.vals[i], Append(path, ChildSegment(node, i)))
         \cup AllLeafPathsFrom(node, path, i + 1)

\* The keys, array lengths and nesting of a tree, without the leaf values
RECURSIVE Shape(_)
Shape(node) ==
  IF node.kind \in {"obj", "arr"}
  THEN [kind |-> node.kind, keys |-> node.keys,
        vals |-> [i \in 1..Len(node.vals) |-> Shape(node.vals[i])]]
  ELSE [kind |-> "leaf", keys |-> <<>>, vals |-> <<>>]

\* The reconstruction produced a document
Rebuilt == rPc = "done" /\ rJson.kind # "crash"

\* The leaf has a translation in the map
Covered(leaf) == leaf.kind = "str" /\ Truthy(rTranslations, hashString(leaf.v))

\* C22: reconstruction leaves everything not covered by a translation
\* unchanged: every string leaf whose string has no translation and every
\* non-string leaf has in the output its original value, and with no
\* translations at all the output equals the source document.
C22_UncoveredLeavesUnchanged ==
  Rebuilt =>
    /\ \A path \in AllLeafPaths(rDoc, <<>>) :
         ~Covered(NodeAt(rDoc, path)) => NodeAt(rJson, path) = NodeAt(rDoc, path)
    /\ rTranslations = <<>> => rJson = rDoc

\* C23: every string leaf whose source string has a translation in the map
\* holds exactly that translation in the output, at the same leaf path,
\* whatever the keys on the path are.
C23_TranslatedAtItsPath ==
  rPc = "done" =>
    /\ rJson.kind # "crash"
    /\ \A path \in Range(LeafPaths(rDoc, <<>>)) :
         Covered(NodeAt(rDoc, path)) =>
           NodeAt(rJson, path) = Str(rTranslations[hashString(NodeAt(rDoc, path).v)])

\* C24: the output has exactly the structure of the source document: the
\* same keys at every level, the same array lengths, the same nesting.
C24_SameStructure == Rebuilt => Shape(rJson) = Shape(rDoc)

\* C25: the flat encoding of a leaf path is reversible: two different leaf
\* paths of a document never have the same flat path, so that the path map
\* has one entry per string leaf.
C25_PathEncodingInjective ==
  rPc \in {"apply", "done"} =>
    /\ \A p, q \in Range(LeafPaths(rDoc, <<>>)) : p # q => FlatPath(p) # FlatPath(q)
    /\ Len(rPathMap) = Len(LeafPaths(rDoc, <<>>))

-----------------------------------------------------------------------------
(* Claims about dry runs *)

\* C26: in dry-run mode, for every combination of the other options, source
\* language detection included, no call of any kind is made to the
\* translation backend, and the run never reaches the steps that write the
\* cache file and the output documents.
C26_DryRunCallsNothing ==
  dOpts.dryRun => (dCalls = <<>> /\ dPc # "translate")

\* Dry runs without --detect-source
DryRunWithoutDetection ==
  (dOpts.dryRun /\ ~dOpts.detectSource) => (dCalls = <<>> /\ dPc # "translate")

-----------------------------------------------------------------------------
(* Claims about the key verification *)

\* The run is over and its output lacks a key of the source document
OutputLacksKey ==
  /\ kPc \in {"finished", "exit1"}
  /\ missingKeys(kDoc, kOutput) # {}

\* C27: with key checking enabled, whenever an output document lacks a key
\* of its source document, the mismatch is reported and the run ends with a
\* non-zero exit status, in single-file and multi-file mode, for file output
\* and stdout output alike.
C27_MissingKeyFailsRun ==
  (kOpts.checkKeys /\ OutputLacksKey) => (kReported /\ kPc = "exit1")

\* The same for all runs but those of several files printed to stdout
MissingKeyFailsRunButMultiStdout ==
  (kOpts.checkKeys /\ OutputLacksKey /\ ~(kOpts.mode = "multi" /\ kOpts.stdout))
    => (kReported /\ kPc = "exit1")

-----------------------------------------------------------------------------
(* Claims about --no-cache *)

\* The strings handed to the backend in the run
SentStrings == {requests[x[1]][x[2]] : x \in SentSites}

\* C28: with --no-cache a run never reads and never writes the cache file,
\* and every unique string of its documents is dispatched for translation.
C28_NoCacheBypassesCacheFile ==
  ~useCache =>
    /\ loadedKind = "none"
    /\ cacheWrites = 0
    /\ cacheFile = cacheAtStart
    /\ TranslationOver => (Range(stringsArray) = UniqueStrings /\ SentStrings = UniqueStrings)

\* A run without the cache is done; the cache file holds a translation of one
\* of its strings for the language of the run, and the string was sent anyway
C28_Witness ==
  /\ ~useCache /\ pc = "done"
  /\ \E site \in LeafSites :
       /\ Truthy(cacheFile[<<site[1], lang>>], hashString(SourceLeaf(site)))
       /\ SourceLeaf(site) \in SentStrings

-----------------------------------------------------------------------------
(* Claims about the MCP tools *)

\* The output argument holds the placeholders documented for the tool:
\* {lang} for translate_json, {dir}, {name} and {lang} for translate_multiple
DocumentedPlaceholders ==
  \/ mTool = "translate_json" /\ mArgs.output = OutLang
  \/ mTool = "translate_multiple" /\ mArgs.output \in {OutLang, OutPattern}

\* The other arguments of the call pass their validation
OtherArgumentsValid ==
  /\ validateFilePath(mArgs.input).ok
  /\ validLangPattern(mArgs.targetLanguage)
  /\ validateContext(mArgs.context)

\* The argument that follows -o in the argument list of the CLI
OutputArgument == mCmdArgs[(CHOOSE i \in 1..Len(mCmdArgs) : mCmdArgs[i] = Lit("-o")) + 1]

\* C29: the MCP tools accept the documented output placeholders: a
\* translate_json call whose outputFile contains {lang} and a
\* translate_multiple call whose outputPattern contains {dir}, {name} and
\* {lang} pass validation, and the placeholder string is handed to the CLI
\* unchanged.
C29_PlaceholdersAccepted ==
  (mPc \notin {"idle", "request"} /\ DocumentedPlaceholders /\ OtherArgumentsValid) =>
    /\ mPc # "validation_error"
    /\ OutputArgument = Arg(mArgs.output)

\* An output path without a placeholder, a null byte or a shell character
\* passes validation and is handed to the CLI normalized
PlainOutputAccepted ==
  (mPc \notin {"idle", "request"} /\ mTool \in {"translate_json", "translate_multiple"}
     /\ mArgs.output \in {OutEs, OutParent} /\ OtherArgumentsValid) =>
    /\ mPc # "validation_error"
    /\ OutputArgument = Arg(IF mArgs.output = OutEs THEN OutEs ELSE <<"e", "s", ".", "j">>)

\* With the braces taken out of the rejected characters, the claim's case
\* would pass
BracesRejected ==
  (mPc \notin {"idle", "request"} /\ DocumentedPlaceholders) =>
    /\ mPc = "validation_error"
    /\ Range(normalize(mArgs.output)) \cap dangerousCharsNoBraces = {}

-----------------------------------------------------------------------------
(* Claims about the choice of the provider *)

GeminiKeyAvailable == ~Falsy(OrElse(tConfig.geminiApiKey, tEnv.GEMINI_API_KEY))
OpenAIKeyAvailable == ~Falsy(OrElse(tConfig.openaiApiKey, tEnv.OPENAI_API_KEY))
Created == tPc \in {"returned", "thrown"}

\* C30: TranslatorFactory.create with type 'gemini' and a Gemini key available
\* returns a Gemini provider (name 'Google Gemini') whose model is the
\* configured geminiModel, or 'gemini-3-flash-preview' when none is
\* configured; an explicit type always takes precedence over key-based
\* detection.
C30_ExplicitGemini ==
  /\ (Created /\ tConfig.type = "gemini" /\ GeminiKeyAvailable) =>
       /\ tPc = "returned"
       /\ tResult.class = "GeminiTranslator" /\ tResult.name = "Google Gemini"
       /\ tResult.modelName = IF tConfig.geminiModel = Unset THEN "gemini-3-flash-preview"
                              ELSE tConfig.geminiModel
  /\ (Created /\ tConfig.type \in {"gemini", "ollama", "openai"}) =>
       \/ tPc = "thrown"
       \/ tResult.class = (CASE tConfig.type = "gemini" -> "GeminiTranslator"
                             [] tConfig.type = "ollama" -> "OllamaTranslator"
                             [] tConfig.type = "openai" -> "OpenAITranslator")

\* create returned a Gemini provider with the configured model for type
\* 'gemini' while an OpenAI key was there as well
C30_Witness ==
  /\ tPc = "returned" /\ tConfig.type = "gemini" /\ OpenAIKeyAvailable
  /\ tConfig.geminiModel = "gemini-pro" /\ tResult.modelName = "gemini-pro"

\* create returned the Ollama provider for type 'ollama' although a Gemini
\* key, which detection prefers, was there
ExplicitOllamaOverGeminiKey ==
  /\ tPc = "returned" /\ tConfig.type = "ollama" /\ GeminiKeyAvailable
  /\ tResult.class = "OllamaTranslator"

\* create returned a Gemini provider with the default model
DefaultModelWitness ==
  /\ tPc = "returned" /\ tConfig.type = "gemini" /\ tConfig.geminiModel = Unset
  /\ tResult.modelName = "gemini-3-flash-preview"

-----------------------------------------------------------------------------
(* Claims about the retries of the Ollama provider *)

\* The strategy that the attempt number alone gives: the JSON format for
\* attempts 1 and 2, the simplified prompt for attempts 4 and 5
ByAttemptNumber(c) ==
  \A i \in 1..Len(oLog[c]) :
    /\ oLog[c][i].json = (i <= 2)
    /\ oLog[c][i].simplified = (i >= 4)

\* C31: when several translate calls run concurrently on one OllamaTranslator
\* (the batches of the single-file pipeline), the request format and prompt
\* of each attempt of a call are determined by that call's own attempt
\* number only: another call's retries or reset never change them.
C31_CallsDoNotInterfere ==
  oPipeline = "single" => \A c \in Calls : ByAttemptNumber(c)

\* C32: a translate call makes at most 5 attempts and terminates once every
\* attempt returns: it returns at the first successful attempt without a
\* further attempt, throws after the 5th consecutive failure, and waits only
\* after attempts 1 to 4, with the base waits 1000, 2000, 4000 and 8000 ms.
C32_Safety ==
  \A c \in Calls :
    /\ Len(oLog[c]) <= 5
    /\ \A i \in 1..Len(oLog[c]) - 1 : oLog[c][i].outcome = "failed"
    /\ oPc[c] = "returned" <=>
         (oLog[c] # <<>> /\ oLog[c][Len(oLog[c])].outcome = "ok")
    /\ oPc[c] = "thrown" <=>
         (Len(oLog[c]) = 5 /\ oLog[c][5].outcome = "failed")
    /\ Len(oWaits[c]) <= 4
    /\ Len(oWaits[c]) = Cardinality({i \in 1..Len(oLog[c]) : i <= 4 /\ oLog[c][i].outcome = "failed"})
    /\ \A k \in 1..Len(oWaits[c]) : oWaits[c][k] = <<1000, 2000, 4000, 8000>>[k]
C32_AtMostFiveAttempts ==
  /\ []C32_Safety
  /\ \A c \in Calls : Active(c) ~> (oPc[c] \in {"returned", "thrown"})

\* A call has thrown after five failures and four waits, another has
\* returned at its third attempt
C32_Witness ==
  /\ oPc[1] = "thrown" /\ Len(oLog[1]) = 5 /\ oWaits[1] = <<1000, 2000, 4000, 8000>>
  /\ oPc[2] = "returned" /\ Len(oLog[2]) = 3

\* C33: in a translate call run in isolation the strategy only gets simpler:
\* attempts 1 and 2 use the JSON format with the full prompt, attempt 3 drops
\* the JSON format, attempts 4 and 5 use the simplified prompt as well; and
\* every new call starts with the JSON format and the full prompt whatever
\* the call before it ended with.
C33_StrategyLadder ==
  oPipeline = "multi" =>
    /\ \A c \in Calls : ByAttemptNumber(c)
    /\ \A c \in Calls : \A i \in 1..Len(oLog[c]) - 1 :
         /\ oLog[c][i + 1].json => oLog[c][i].json
         /\ oLog[c][i].simplified => oLog[c][i + 1].simplified

\* The second call, started after a call that ended without the JSON format
\* and with the simplified prompt, has made all of its five attempts
C33_Witness ==
  /\ oPipeline = "multi" /\ oStarted = 2
  /\ oEarlier = [json |-> FALSE, simplified |-> TRUE]
  /\ Len(oLog[2]) = 5

-----------------------------------------------------------------------------
(* Claims about the validation of the MCP arguments *)

Answered == mPc \notin {"idle", "request"}
IsError == mPc \in {"validation_error", "cli_error", "io_error"}
Spawned == mCmdArgs # <<>>
TakesInputPath == mTool \in {"translate_json", "translate_multiple", "detect_language"}
TakesOutputPath == mTool \in {"translate_json", "translate_multiple"}
TakesLanguage == mTool \in {"translate_json", "translate_multiple", "translate_string"}

\* A null byte or one of ; & | backtick $ ( ) { } [ ] < > ! in the string
HasForbiddenCharacter(chars) ==
  Nul \in Range(chars) \/ Range(chars) \cap dangerousChars # {}
IllFormedLanguage == mArgs.targetLanguage = <<"e">>
ContextTooLong == mArgs.context > 1000

\* An argument of the request is invalid, the paths taken as they were
\* supplied (Raw) or as path.normalize leaves them
InvalidArgumentRaw ==
  \/ TakesInputPath /\ HasForbiddenCharacter(mArgs.input)
  \/ TakesOutputPath /\ HasForbiddenCharacter(mArgs.output)
  \/ TakesLanguage /\ (IllFormedLanguage \/ ContextTooLong)
InvalidArgument ==
  \/ TakesInputPath /\ HasForbiddenCharacter(normalize(mArgs.input))
  \/ TakesOutputPath /\ HasForbiddenCharacter(normalize(mArgs.output))
  \/ TakesLanguage /\ (IllFormedLanguage \/ ContextTooLong)

\* C34 as stated: for translate_json, translate_multiple, detect_language
\* and translate_string, a request with a path containing a null byte or a
\* shell metacharacter, an ill-formed language code or a context of more than
\* 1000 characters spawns no subprocess and is answered with isError.
C34_AsStated ==
  (Answered /\ mTool # "validate_translation" /\ InvalidArgumentRaw) =>
    (~Spawned /\ IsError)

\* C34: for translate_json, translate_multiple, detect_language and
\* translate_string, the CLI is spawned only after every supplied path,
\* language code and context has passed validation; a request with a path
\* whose normalized form contains a null byte or one of the rejected
\* characters, an ill-formed language code or a context of more than 1000
\* characters spawns no subprocess and is answered with isError.
C34_ValidatedBeforeSpawn ==
  (Answered /\ mTool # "validate_translation") =>
    /\ Spawned => ~InvalidArgument
    /\ InvalidArgument => (~Spawned /\ mPc = "validation_error")

\* translate_string was refused for its context alone, and nothing was run
C34_Witness ==
  /\ mTool = "translate_string" /\ mPc = "validation_error" /\ ~Spawned
  /\ ContextTooLong /\ ~IllFormedLanguage /\ mArgs.text = 5

\* The normalized path leaves the directory it is relative to
Traversal(chars) == <<".", ".">> \in Range(SplitOn(normalize(chars), "/", 1, <<>>))

\* C35: validateFilePath prevents path traversal: a path that after
\* normalization still has a '..' segment is rejected and is never passed to
\* the CLI or to a file read.
C35_NoTraversal ==
  (Answered /\ (TakesInputPath \/ mTool = "validate_translation") /\ Traversal(mArgs.input)) =>
    /\ mPc = "validation_error"
    /\ Arg(normalize(mArgs.input)) \notin Range(mCmdArgs)
    /\ normalize(mArgs.input) \notin Range(mReads)

\* Every path handed to the CLI or read is free of the rejected characters
PassedPathsClean ==
  /\ \A i \in 1..Len(mCmdArgs) : ~HasForbiddenCharacter(mCmdArgs[i].chars)
  /\ \A i \in 1..Len(mReads) : ~HasForbiddenCharacter(mReads[i])

-----------------------------------------------------------------------------
(* Claims about the cache entries of other languages and documents *)

\* A cache key of another target language or of a document outside the run
Foreign(key) == key[2] # lang \/ key[1] \notin RunFiles

\* C36: a run for target language L over a set of documents never adds,
\* changes or removes a persisted cache entry stored under another target
\* language or under a document that is not part of the run: after the run
\* those entries equal what was loaded.
C36_ForeignEntriesKept ==
  \A key \in Files \X Langs :
    Foreign(key) =>
      /\ cacheFile[key] = cacheAtStart[key]
      /\ (useCache /\ loadedKind = "valid") => translationCache[key] = cacheAtStart[key]

\* A run has rewritten the cache file, which held entries of another
\* language and of a document outside the run
C36_Witness ==
  /\ pc = "done" /\ cacheWrites > 0 /\ cacheFile # cacheAtStart
  /\ \E key \in Files \X Langs : key[2] # lang /\ cacheAtStart[key] # <<>>
  /\ \E key \in Files \X Langs : key[1] \notin RunFiles /\ cacheAtStart[key] # <<>>

-----------------------------------------------------------------------------
(* Claims about the output paths *)

\* Two writes of one invocation for different (document, language) pairs
WritePairs ==
  {x \in (1..Len(wWritten)) \X (1..Len(wWritten)) :
     /\ x[1] < x[2]
     /\ <<wWritten[x[1]].file, wWritten[x[1]].lang>> # <<wWritten[x[2]].file, wWritten[x[2]].lang>>}

\* C37: within one run no output file written for one (document, target
\* language) pair is overwritten by the output of another document or
\* another language: distinct pairs resolve to distinct output paths.
C37_DistinctOutputPaths ==
  \A x \in WritePairs : wWritten[x[1]].path # wWritten[x[2]].path

\* The same for the invocations whose template names the language and, with
\* several files, the directory and the name, over files named *.json
DistinctWithFullTemplate ==
  ((IF isSingleFile THEN wOutput \in {OutByLang, OutFull, OutNameLang} ELSE wOutput = OutFull)
     /\ PathAXBare \notin Range(wFiles))
    => \A x \in WritePairs : wWritten[x[1]].path # wWritten[x[2]].path

\* All the writes of an invocation of two files and two languages are done
AllWritten == Len(wFiles) = 2 /\ Len(wLangs) = 2 /\ Len(wWritten) = 4

-----------------------------------------------------------------------------
(* Claims about the two pipelines on one document *)

BothOver == eSingle.pc \in {"done", "failed"} /\ eMulti.pc \in {"done", "failed"}

\* C38: for one document, the same initial cache and a backend whose
\* translation of a string does not depend on the batch the string is in,
\* the single-file pipeline and the multi-file pipeline given only that
\* document produce the same translated output document.
C38_SameOutput == BothOver => eSingle.output = eMulti.output

\* The same when the cache file can be written and either no string comes
\* back empty or the misses fit in one batch
SameOutputOnOneBatch ==
  (BothOver /\ (eWritable \/ ~eUseCache)
     /\ (eBackend.blank = "" \/ eBackend.fails \/ eDoc # DocWide))
    => eSingle.output = eMulti.output

\* The same whenever the cache file can be written
SameOutputOnWritableCache ==
  (BothOver /\ (eWritable \/ ~eUseCache)) => eSingle.output = eMulti.output

\* Both pipelines wrote a translation of the wide document
BothWroteWide ==
  /\ eDoc = DocWide /\ eSingle.pc = "done" /\ eMulti.pc = "done"
  /\ eSingle.output # eDoc /\ eMulti.output # eDoc

====
